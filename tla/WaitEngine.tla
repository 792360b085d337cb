------------------------------ MODULE WaitEngine ------------------------------
(***************************************************************************)
(* Inputs whose effects are waited for (runWithWait in daemon/src/          *)
(* wait-engine.ts) and the attempts of a click (daemon/src/interactive-     *)
(* actions.ts, retry-policy.ts).  An attempt listens to the page's events,  *)
(* puts a capture into the page, dispatches its input and polls until its   *)
(* conditions hold or its time is over; what it has noticed by then decides *)
(* whether the input may be repeated.                                       *)
(*                                                                         *)
(* Two actions may run on one page, which callers know under several names, *)
(* and share the capture manager in it.  What happens on the page is either *)
(* an effect within the document, which only a capture notices, or an event *)
(* that Playwright reports.  Conditions other than `settled' hold or not as  *)
(* the page pleases, and requests are counted for those that read the       *)
(* count; frames, baselines and the events' contents are left out.          *)
(***************************************************************************)
EXTENDS Integers, FiniteSets, Sequences

CONSTANTS
  Actions,    \* inputs that may run together on the page
  Settling,   \* those among them that wait for `settled', and nothing else
  Policy,     \* the retry policy each was asked for with
  Requests    \* network requests of the page that may be open together

ASSUME RequestsAssumption == IsFiniteSet(Requests)
ASSUME SettlingAssumption == Settling \subseteq Actions
ASSUME PolicyAssumption == Policy \in [Actions -> {"safe", "once", "never"}]

VARIABLES
  pc,         \* how far the current attempt of an action got
  attempt,    \* its number; 0 when nothing is asked for
  late,       \* attempts that ran out of time
  noticed,    \* attempts whose `events' are not empty
  did,        \* attempts after whose dispatch something happened in time
  polls,      \* quietPolls
  moved,      \* attempts whose page changed since they looked at it
  inFlight,   \* how many requests an attempt believes to be open
  begun,      \* the open requests that it saw begin
  strays,     \* attempts that counted off a request they never counted
  open,       \* open requests
  captures,   \* the manager in the document: its captures, none without it
  undrained,  \* captures that noticed something
  setters,    \* who put setters over the native ones, the last on top
  closed      \* is the page closed?

attemptVars == <<pc, attempt, late>>
evidenceVars == <<noticed, did>>
settledVars == <<polls, moved, inFlight, begun, strays>>
documentVars == <<captures, undrained, setters>>
vars == <<attemptVars, evidenceVars, settledVars, open, documentVars, closed>>

Waiting == {"dispatching", "polling", "observing"}
Watching == Waiting \cup {"collecting", "leaving"}    \* up to the last look
InPage == Watching \cup {"cleaning"}

(* runWithWait has its listeners on the page.                               *)
Listening == {a \in Actions : pc[a] \in InPage \cup {"installing"}}

(* Those of them whose counts will be read; the others' are not followed.   *)
Counting == {a \in Settling : pc[a] \in Waiting \cup {"installing"}}

TypeOK ==
  /\ pc \in [Actions -> InPage \cup {"idle", "installing", "deciding"}]
  /\ attempt \in [Actions -> 0..2]
  /\ late \subseteq Actions /\ noticed \subseteq Actions /\ did \subseteq Actions
  /\ polls \in [Actions -> 0..2]
  /\ moved \subseteq Actions /\ strays \subseteq Actions
  /\ inFlight \in [Actions -> 0..Cardinality(Requests)]
  /\ open \subseteq Requests
  /\ begun \in [Actions -> SUBSET open]
  /\ undrained \subseteq captures /\ captures \subseteq Actions
  /\ setters \in Seq({"ours", "page"})
  /\ closed \in BOOLEAN

Init ==
  /\ pc = [a \in Actions |-> "idle"]
  /\ attempt = [a \in Actions |-> 0]
  /\ late = {} /\ noticed = {} /\ did = {} /\ moved = {} /\ strays = {}
  /\ polls = [a \in Actions |-> 0]
  /\ inFlight = [a \in Actions |-> 0]
  /\ open \in SUBSET Requests
  /\ begun = [a \in Actions |-> {}]
  /\ captures = {} /\ undrained = {}
  /\ setters = <<>>
  /\ closed = FALSE

-----------------------------------------------------------------------------
(* Attempts.                                                                *)

Goes(a, step) == pc' = [pc EXCEPT ![a] = step]

(* Nothing is counted yet, or any more.                                     *)
CountsNothing(a) ==
  /\ polls' = [polls EXCEPT ![a] = 0]
  /\ moved' = moved \ {a}
  /\ inFlight' = [inFlight EXCEPT ![a] = 0]
  /\ begun' = [begun EXCEPT ![a] = {}]
  /\ strays' = strays \ {a}

StartsAfresh(a) ==
  /\ late' = late \ {a}
  /\ noticed' = noticed \ {a}
  /\ did' = did \ {a}
  /\ CountsNothing(a)

(* runWithWait starts with nothing noticed and with its listeners.          *)
Listen(a) ==
  /\ ~closed
  /\ Goes(a, "installing")
  /\ attempt' = [attempt EXCEPT ![a] = @ + 1]
  /\ StartsAfresh(a)
  /\ UNCHANGED <<open, documentVars, closed>>

Begin(a) == pc[a] = "idle" /\ Listen(a)

(* installTransientCapture: the capture joins those of the manager, or a    *)
(* manager is made, which puts its setters over whatever is there.  The     *)
(* input is dispatched once the capture is in place.                        *)
Install(a) ==
  /\ pc[a] = "installing"
  /\ ~closed
  /\ captures' = captures \cup {a}
  /\ setters' = IF captures = {} THEN Append(setters, "ours") ELSE setters
  /\ Goes(a, "dispatching")
  /\ UNCHANGED <<attempt, late, evidenceVars, settledVars, open, undrained, closed>>

(* The page has a manager of its own, or setters that cannot be replaced:   *)
(* what was replaced is rolled back.  Or a navigation interrupts it.  There  *)
(* is nothing to drain.                                                     *)
InstallFails(a) ==
  /\ pc[a] = "installing"
  /\ Goes(a, "cleaning")
  /\ CountsNothing(a)
  /\ UNCHANGED <<attempt, late, evidenceVars, open, documentVars, closed>>

Dispatched(a) ==
  /\ pc[a] = "dispatching"
  /\ Goes(a, "polling")
  /\ UNCHANGED <<attempt, late, evidenceVars, settledVars, open, documentVars, closed>>

(* drainTransientCapture.                                                   *)
Drained(a) ==
  /\ noticed' = IF a \in undrained THEN noticed \cup {a} ELSE noticed
  /\ undrained' = undrained \ {a}

Poll(a) ==
  /\ pc[a] = "polling"
  /\ ~closed
  /\ Drained(a)
  /\ Goes(a, "observing")
  /\ UNCHANGED <<attempt, late, did, settledVars, open, captures, setters, closed>>

(* The condition `settled': has the document stood still for two polls, and *)
(* is no request believed to be open?  (50 ms have passed by then.)         *)
QuietPolls(a) == IF a \in moved THEN 0 ELSE IF polls[a] = 2 THEN 2 ELSE polls[a] + 1
Quietly(a) == a \in Settling /\ inFlight[a] = 0 /\ QuietPolls(a) = 2

Observes(a) ==
  /\ pc[a] = "observing"
  /\ UNCHANGED <<attempt, evidenceVars, open, documentVars, closed>>

SettlesQuietly(a) ==
  /\ Observes(a)
  /\ Quietly(a)
  /\ Goes(a, "collecting")
  /\ CountsNothing(a)
  /\ UNCHANGED late

(* Other conditions hold, or `settled' has waited as long as it may.        *)
Passes(a) ==
  /\ Observes(a)
  /\ ~Quietly(a)
  /\ Goes(a, "collecting")
  /\ CountsNothing(a)
  /\ UNCHANGED late

(* It is too late for another poll, or it is not.                           *)
Late(a) ==
  /\ Observes(a)
  /\ ~Quietly(a)
  /\ Goes(a, "leaving")
  /\ late' = late \cup {a}
  /\ CountsNothing(a)

PollsAgain(a) ==
  /\ Observes(a)
  /\ ~Quietly(a)
  /\ Goes(a, "polling")
  /\ polls' = IF a \in Settling THEN [polls EXCEPT ![a] = QuietPolls(a)] ELSE polls
  /\ moved' = moved \ {a}
  /\ UNCHANGED <<late, inFlight, begun, strays>>

Collected(a) ==
  /\ pc[a] = "collecting"
  /\ Goes(a, "leaving")
  /\ UNCHANGED <<attempt, late, evidenceVars, settledVars, open, documentVars, closed>>

(* The input fails, the page is closed, or an evaluation is interrupted by  *)
(* a navigation.                                                            *)
Fails(a) ==
  /\ pc[a] \in {"dispatching", "polling", "observing", "collecting"}
  /\ Goes(a, "leaving")
  /\ CountsNothing(a)
  /\ UNCHANGED <<attempt, late, evidenceVars, open, documentVars, closed>>

(* However the wait ended, the capture is drained for the last time (twice  *)
(* in a row after an error).                                                *)
Leave(a) ==
  /\ pc[a] = "leaving"
  /\ Drained(a)
  /\ Goes(a, "cleaning")
  /\ UNCHANGED <<attempt, late, did, settledVars, open, captures, setters, closed>>

Top(s) == s[Len(s)]

(* Slip: the native setters are put back, whatever was put over them.       *)
RestoredNative == <<>>

(* The setters are restored, unless the page has put its own over them.     *)
Restored ==
  IF setters # <<>> /\ Top(setters) = "ours"
  THEN SubSeq(setters, 1, Len(setters) - 1) ELSE setters

(* Slip: the manager leaves with the first capture.                         *)
CleanUpEverything(a) ==
  /\ pc[a] = "cleaning"
  /\ captures' = {}
  /\ undrained' = {}
  /\ setters' = IF captures # {} THEN Restored ELSE setters
  /\ Goes(a, "deciding")
  /\ UNCHANGED <<attempt, late, evidenceVars, settledVars, open, closed>>

(* Slip: a manager without captures stays for the next one.                 *)
CleanUpCapture(a) ==
  /\ pc[a] = "cleaning"
  /\ captures' = captures \ {a}
  /\ undrained' = undrained \ {a}
  /\ Goes(a, "deciding")
  /\ UNCHANGED <<attempt, late, evidenceVars, settledVars, open, setters, closed>>

(* Slip: what a capture has noticed stays for the next attempt.             *)
CleanUpUndrained(a) ==
  /\ pc[a] = "cleaning"
  /\ captures' = captures \ {a}
  /\ setters' = IF captures = {a} THEN Restored ELSE setters
  /\ Goes(a, "deciding")
  /\ UNCHANGED <<attempt, late, evidenceVars, settledVars, open, undrained, closed>>

(* cleanupTransientCapture, then the listeners: the manager leaves with its *)
(* last capture.                                                            *)
CleanUp(a) ==
  /\ pc[a] = "cleaning"
  /\ captures' = captures \ {a}
  /\ undrained' = undrained \ {a}
  /\ setters' = IF captures = {a} THEN Restored ELSE setters
  /\ Goes(a, "deciding")
  /\ UNCHANGED <<attempt, late, evidenceVars, settledVars, open, closed>>

(* Slip: a safe retry is content with a page that looks as it did before.   *)
MayRepeatUnchanged(a, guarded, irreversible, truncated, changed) ==
  /\ a \in late
  /\ attempt[a] < 2 /\ ~truncated
  /\ Policy[a] # "never"
  /\ ~guarded
  /\ Policy[a] = "once" => ~irreversible
  /\ Policy[a] = "safe" => ~changed

(* retryDecision, for an attempt whose time was over: what the caller asked *)
(* for; no guard (--expect-text, --confirm-token); no irreversible intent   *)
(* of the target where "once" was asked for; and for a safe retry neither   *)
(* an event nor a change of the page, which is compared with what it was    *)
(* before the attempt, as far as it could be observed.                      *)
MayRepeat(a, guarded, irreversible, truncated, changed) ==
  /\ a \in late
  /\ attempt[a] < 2 /\ ~truncated
  /\ Policy[a] # "never"
  /\ ~guarded
  /\ Policy[a] = "once" => ~irreversible
  /\ Policy[a] = "safe" => a \notin noticed /\ ~changed

(* An action is decided on once, so what it was guarded by, the intent of   *)
(* its target and the comparison of the page stay open until then.          *)
Repeat(a) ==
  /\ pc[a] = "deciding"
  /\ \E guarded, irreversible, truncated, changed \in BOOLEAN :
       MayRepeat(a, guarded, irreversible, truncated, changed)
  /\ Listen(a)

(* The action is over: its wait passed or failed, or it may not be repeated. *)
Stop(a) ==
  /\ pc[a] = "deciding"
  /\ \/ closed
     \/ \E guarded, irreversible, truncated, changed \in BOOLEAN :
          ~MayRepeat(a, guarded, irreversible, truncated, changed)
  /\ Goes(a, "idle")
  /\ attempt' = [attempt EXCEPT ![a] = 0]
  /\ StartsAfresh(a)
  /\ UNCHANGED <<open, documentVars, closed>>

-----------------------------------------------------------------------------
(* The page.                                                                *)

Happens ==
  /\ ~closed
  /\ did' = did \cup {a \in Actions : pc[a] \in Watching}

Changes == moved' = moved \cup {a \in Settling : pc[a] \in Waiting}

(* The document changes: the manager tells every capture.                   *)
DocumentChanges ==
  /\ Happens
  /\ Changes
  /\ undrained' = captures
  /\ UNCHANGED <<attemptVars, noticed, polls, inFlight, begun, strays, open, captures,
                 setters, closed>>

(* Playwright reports a request, to every listener.                         *)
RequestBegins(r) ==
  /\ Happens
  /\ r \notin open
  /\ open' = open \cup {r}
  /\ noticed' = noticed \cup Listening
  /\ inFlight' = [a \in Actions |-> inFlight[a] + IF a \in Counting THEN 1 ELSE 0]
  /\ begun' = [a \in Actions |-> begun[a] \cup IF a \in Counting THEN {r} ELSE {}]
  /\ UNCHANGED <<attemptVars, polls, moved, strays, documentVars, closed>>

(* Slip: a request that ends stands for all of them.                        *)
CountedOffAll(a) == 0

(* onRequestDone does not know which request it was that ended.             *)
CountedOff(a) == IF inFlight[a] = 0 THEN 0 ELSE inFlight[a] - 1

RequestEnds(r) ==
  /\ ~closed
  /\ r \in open
  /\ open' = open \ {r}
  /\ inFlight' = [a \in Actions |-> CountedOff(a)]
  /\ begun' = [a \in Actions |-> begun[a] \ {r}]
  /\ strays' = strays \cup {a \in Counting : r \notin begun[a] /\ inFlight[a] > 0}
  /\ UNCHANGED <<attemptVars, evidenceVars, polls, moved, documentVars, closed>>

(* A new document: Playwright reports it before it evaluates anything there, *)
(* and nothing of the old one is left.  What `settled' compares is the URL   *)
(* and a count of changes, which may be those of the old document again.     *)
Navigates ==
  /\ Happens
  /\ Changes \/ UNCHANGED moved
  /\ noticed' = noticed \cup Listening
  /\ captures' = {}
  /\ undrained' = {}
  /\ setters' = <<>>
  /\ UNCHANGED <<attemptVars, polls, inFlight, begun, strays, open, closed>>

(* The page puts setters of its own over those it finds, once a document.   *)
PagePatches ==
  /\ ~closed
  /\ "page" \notin {setters[n] : n \in DOMAIN setters}
  /\ setters' = Append(setters, "page")
  /\ UNCHANGED <<attemptVars, evidenceVars, settledVars, open, captures, undrained, closed>>

PageCloses ==
  /\ ~closed
  /\ closed' = TRUE
  /\ captures' = {}
  /\ undrained' = {}
  /\ setters' = <<>>
  /\ UNCHANGED <<attemptVars, evidenceVars, settledVars, open>>

-----------------------------------------------------------------------------
Step(a) ==
  \/ Install(a) \/ InstallFails(a) \/ Dispatched(a) \/ Poll(a)
  \/ SettlesQuietly(a) \/ Passes(a) \/ Late(a) \/ PollsAgain(a)
  \/ Collected(a) \/ Fails(a) \/ Leave(a) \/ CleanUp(a)
  \/ Repeat(a) \/ Stop(a)

Page ==
  \/ DocumentChanges \/ Navigates \/ PagePatches \/ PageCloses
  \/ \E r \in Requests : RequestBegins(r) \/ RequestEnds(r)

Next == Page \/ \E a \in Actions : Begin(a) \/ Step(a)

Spec == Init /\ [][Next]_vars

-----------------------------------------------------------------------------
(* What an attempt has to show for itself is complete: whatever happened on *)
(* the page between its dispatch and its last look is in its events, though *)
(* another action installs or removes its capture meanwhile or the document *)
(* is replaced.  Only a page that is gone has nothing to tell.              *)
(* (wait-engine.ts:504-720 and 1132-1146)                                   *)
NothingUnnoticed ==
  ~closed => \A a \in did : pc[a] \in {"cleaning", "deciding"} => a \in noticed

(* A safe retry repeats no input after which anything happened.             *)
(* (README.md:96, retry-policy.ts:44-67)                                    *)
SafeRetriesOnly ==
  [][\A a \in Actions :
       attempt[a] = 1 /\ attempt'[a] = 2 /\ Policy[a] = "safe" => a \notin did]_vars

(* When nobody waits for effects the document is as the page made it: the   *)
(* manager is gone, and its setters, unless the page has built on them.     *)
(* (wait-engine.ts:596-615)                                                 *)
NothingLeftBehind ==
  /\ \A a \in captures : pc[a] \in InPage
  /\ captures = {} /\ setters # <<>> => Top(setters) = "page"

(* Setters of the page are never undone.  (wait-engine.ts:578-595)          *)
PageSettersStay ==
  [][\A n \in DOMAIN setters : setters[n] = "page" =>
         \/ Navigates
         \/ PageCloses
         \/ n \in DOMAIN setters' /\ setters'[n] = "page"]_vars

(* A wait that settled quietly did so with no request open that it saw      *)
(* begin, unless the end of an older request was taken for that of a newer  *)
(* one.  (wait-engine.ts:856-864 and 890-908)                               *)
QuietUnlessStray ==
  [][\A a \in Actions :
       pc[a] = "observing" /\ SettlesQuietly(a) => begun[a] = {} \/ a \in strays]_vars

(* An attempt knows what it was told and what its capture still holds for   *)
(* it, as long as it will look there.                                       *)
Promise == INSTANCE ObservedInputs WITH
  phase <- [a \in Actions |-> IF pc[a] = "idle" THEN "idle"
                              ELSE IF pc[a] = "installing" THEN "starting"
                              ELSE IF pc[a] \in Watching THEN "watching" ELSE "over"],
  found <- {a \in Actions : a \in noticed \/ (a \in undrained /\ pc[a] \in Watching)}

(* Listeners, polls and captures in a manager that actions share, over any  *)
(* number of documents, do what eyes of its own would do for an attempt: it *)
(* learns of everything that happens while it watches, and of nothing that  *)
(* happened to an earlier attempt or to another action, which would keep an *)
(* input from being repeated.  (wait-engine.ts:504-720, retry-policy.ts)    *)
ImplementsObservedInputs == Promise!Spec
===============================================================================
