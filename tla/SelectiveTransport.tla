-------------------------- MODULE SelectiveTransport --------------------------
(***************************************************************************)
(* The CDP connection between Playwright and a connected browser           *)
(* (daemon/src/selective-cdp-transport.ts).  Playwright is not attached to  *)
(* every tab: the transport attaches the targets that are asked for, tells  *)
(* Playwright so when the browser does not, and holds the answer to a       *)
(* `Target.createTarget' back until the new target is attached.             *)
(*                                                                         *)
(* A call is one use of the transport: some internal commands one after the *)
(* other, or the creation of a page by Playwright.  Calls run concurrently; *)
(* a step runs from one message or timer to the next.  What the messages    *)
(* carry, session identifiers and command numbers are left out.             *)
(***************************************************************************)
EXTENDS FiniteSets

CONSTANTS
  Calls,     \* the calls that may be under way together
  Targets,   \* page targets of the browser, by their identifiers
  NoTarget,  \* a call that has no target yet
  Nobody     \* a target nobody attaches

ASSUME CallsAssumption == Nobody \notin Calls
ASSUME TargetsAssumption == NoTarget \notin Targets

VARIABLES
  closed,   \* is the connection closed?
  live,     \* the targets that exist in the browser
  unborn,   \* those nobody opened yet
  call,     \* the command each call waits for, or how it ended
  of,       \* the target of each call
  held,     \* the calls whose createTarget answer is held back
  waiter,   \* the call that listens for the attachment of a target
  heard,    \* has the call's listener been told?
  coming,   \* targets whose attachment the browser is about to report
  page      \* what Playwright has of each target: it has been told of it, or
            \* made a page of it that is open or closed

transportVars == <<closed, live, unborn, call, of, held, waiter, heard, coming, page>>

(* Commands in `pendingCommands', and how an attachment is over: with the   *)
(* answer to getPage, the answer to Playwright, or not at all.              *)
Commands == {"list", "activate", "info", "attach", "detach"}
Outcomes == {"attached", "created", "refused"}

TransportTypeOK ==
  /\ closed \in BOOLEAN
  /\ live \subseteq Targets /\ unborn \subseteq Targets /\ live \cap unborn = {}
  /\ call \in [Calls -> {"free", "create", "window"} \cup Commands \cup Outcomes]
  /\ of \in [Calls -> Targets \cup {NoTarget}]
  /\ held \subseteq Calls
  /\ waiter \in [Targets -> Calls \cup {Nobody}]
  /\ heard \subseteq Calls
  /\ coming \subseteq Targets
  /\ page \in [Targets -> {"none", "told", "open", "closed"}]
  /\ \A k \in Calls : call[k] \in {"activate", "info", "attach", "window"} => of[k] \in Targets

TransportInit ==
  /\ closed = FALSE
  /\ live = {}
  /\ unborn = Targets
  /\ call = [k \in Calls |-> "free"]
  /\ of = [k \in Calls |-> NoTarget]
  /\ held = {}
  /\ waiter = [t \in Targets |-> Nobody]
  /\ heard = {}
  /\ coming = {}
  /\ page = [t \in Targets |-> "none"]

-----------------------------------------------------------------------------
(* Call `k' sends a command about `t': refused at once when the connection  *)
(* is closed.                                                               *)
Send(k, command, t) ==
  /\ call' = [call EXCEPT ![k] = IF closed THEN "refused" ELSE command]
  /\ of' = [of EXCEPT ![k] = t]
  /\ UNCHANGED <<closed, live, unborn, held, waiter, heard, coming, page>>

(* A call that is over leaves nothing behind.                               *)
Release(k) ==
  /\ call' = [call EXCEPT ![k] = "free"]
  /\ of' = [of EXCEPT ![k] = NoTarget]
  /\ held' = held \ {k}
  /\ heard' = heard \ {k}
  /\ UNCHANGED <<closed, live, unborn, waiter, coming, page>>

(* Playwright is told that `t' is attached; it is told in vain of a target  *)
(* it already has.                                                          *)
Tell(t) == page' = [page EXCEPT ![t] = IF @ = "none" THEN "told" ELSE @]

(* The connection is over: every pending command is rejected, Playwright    *)
(* fails the creations it waits for, and the clean-up of the rejected calls *)
(* runs.  Only a call of getPage in its 50 ms goes on.  Playwright closes its *)
(* pages.                                                                   *)
HangUp ==
  LET ends == {k \in Calls : \/ call[k] \in Commands \cup {"create", "created"}
                             \/ call[k] = "window" /\ k \in held}
  IN /\ closed' = TRUE
     /\ call' = [k \in Calls |-> IF k \in ends THEN "refused" ELSE call[k]]
     /\ waiter' = [t \in Targets |->
                     IF \E k \in ends : call[k] \in {"attach", "window"} /\ of[k] = t
                     THEN Nobody ELSE waiter[t]]
     /\ coming' = {}
     /\ page' = [t \in Targets |-> IF page[t] = "none" THEN "none" ELSE "closed"]

(* Slip: Playwright waits for a page whose attachment failed.               *)
GiveUpQuietly(k) ==
  /\ call' = [call EXCEPT ![k] = IF k \in held THEN "create" ELSE "refused"]
  /\ waiter' = [waiter EXCEPT ![of[k]] = Nobody]
  /\ UNCHANGED <<closed, coming, page>>

(* The attachment of call `k' fails.  When Playwright's answer hangs on it  *)
(* the whole connection is given up.                                        *)
GiveUp(k) ==
  IF k \in held
  THEN HangUp
  ELSE /\ call' = [call EXCEPT ![k] = "refused"]
       /\ waiter' = [waiter EXCEPT ![of[k]] = IF call[k] = "attach" THEN Nobody ELSE @]
       /\ UNCHANGED <<closed, coming, page>>

(* attachToTarget: the target is known; its attachment is asked for, which  *)
(* the browser may or may not report.  A second call for the same target    *)
(* takes the place of the first as the listener.                            *)
InfoReply(k) ==
  /\ call[k] = "info"
  /\ of[k] \in live
  /\ call' = [call EXCEPT ![k] = "attach"]
  /\ waiter' = [waiter EXCEPT ![of[k]] = k]
  /\ \E reports \in BOOLEAN :
       coming' = IF reports THEN coming \cup {of[k]} ELSE coming
  /\ UNCHANGED <<closed, live, unborn, of, held, heard, page>>

AttachReply(k) ==
  /\ call[k] = "attach"
  /\ of[k] \in live
  /\ call' = [call EXCEPT ![k] = "window"]
  /\ UNCHANGED <<closed, live, unborn, of, held, waiter, heard, coming, page>>

AttachFails(k) ==
  /\ call[k] \in {"info", "attach"}
  /\ of[k] \notin live
  /\ GiveUp(k)
  /\ UNCHANGED <<live, unborn, of, held, heard>>

(* The attachment is over: the answer that was held back goes to Playwright, *)
(* and the listener of the target, whosever it is by now, is removed.       *)
Attached(k) ==
  /\ call' = [call EXCEPT ![k] = IF k \in held THEN "created" ELSE "attached"]
  /\ waiter' = [waiter EXCEPT ![of[k]] = Nobody]

AttachmentHeard(k) ==
  /\ call[k] = "window"
  /\ k \in heard
  /\ Attached(k)
  /\ UNCHANGED <<closed, live, unborn, of, held, heard, coming, page>>

(* Slip: a browser that reports nothing is believed to have reported.       *)
WindowOverSilently(k) ==
  /\ call[k] = "window"
  /\ k \notin heard
  /\ Attached(k)
  /\ UNCHANGED <<closed, live, unborn, of, held, heard, coming, page>>

(* 50 ms without a report: the transport tells Playwright itself.           *)
WindowOver(k) ==
  /\ call[k] = "window"
  /\ k \notin heard
  /\ Tell(of[k])
  /\ Attached(k)
  /\ UNCHANGED <<closed, live, unborn, of, held, heard, coming>>

(* The browser reports an attachment, in time or late: Playwright is told,  *)
(* and the listener of the target.                                          *)
Report(t) ==
  /\ t \in coming
  /\ coming' = coming \ {t}
  /\ Tell(t)
  /\ heard' = heard \cup ({waiter[t]} \ {Nobody})
  /\ UNCHANGED <<closed, live, unborn, call, of, held, waiter>>

(* Slip: the attachment is asked for before the answer was read.            *)
CreateReplyUnread(k) ==
  /\ call[k] = "create"
  /\ k \notin held
  /\ \E t \in unborn :
       /\ live' = live \cup {t}
       /\ unborn' = unborn \ {t}
       /\ held' = held \cup {k}
       /\ call' = [call EXCEPT ![k] = "info"]
  /\ UNCHANGED <<closed, of, waiter, heard, coming, page>>

(* The browser answers Target.createTarget: the answer is held back and the *)
(* target attached.  Or it refuses, which Playwright hears at once.         *)
CreateReply(k) ==
  /\ call[k] = "create"
  /\ k \notin held
  /\ \E t \in unborn :
       /\ live' = live \cup {t}
       /\ unborn' = unborn \ {t}
       /\ of' = [of EXCEPT ![k] = t]
       /\ held' = held \cup {k}
       /\ call' = [call EXCEPT ![k] = "info"]
  /\ UNCHANGED <<closed, waiter, heard, coming, page>>

CreateRefused(k) ==
  /\ call[k] = "create"
  /\ k \notin held
  /\ call' = [call EXCEPT ![k] = "refused"]
  /\ UNCHANGED <<closed, live, unborn, of, held, waiter, heard, coming, page>>

(* The browser opens a tab by itself, and may attach it: a popup, or one    *)
(* the user opened, before or after the connection was made.                *)
TabOpens ==
  /\ ~closed
  /\ \E t \in unborn, attached \in BOOLEAN :
       /\ live' = live \cup {t}
       /\ unborn' = unborn \ {t}
       /\ coming' = IF attached THEN coming \cup {t} ELSE coming
  /\ UNCHANGED <<closed, call, of, held, waiter, heard, page>>

(* An attachment goes on with the browser's answer, or the end of 50 ms.    *)
Attaches(k) ==
  \/ InfoReply(k) \/ AttachReply(k) \/ AttachFails(k)
  \/ AttachmentHeard(k) \/ WindowOver(k)
  \/ CreateReply(k) \/ CreateRefused(k)

-----------------------------------------------------------------------------
(* Playwright learns that a page it created exists only after it was told   *)
(* that the page is attached: it could not make a page of it otherwise.     *)
(* (selective-cdp-transport.ts:311-318)                                     *)
CreatedWhenTold ==
  \A k \in Calls : call[k] = "created" => page[of[k]] # "none"
===============================================================================
