----------------------------- MODULE TargetPages -----------------------------
(***************************************************************************)
(* The pages of one connected browser in the BrowserManager                *)
(* (daemon/src/browser-manager.ts): getPage by target and by name, popups,  *)
(* listPages and closePage, over the SelectiveTransport.  None of them is   *)
(* serialised here: requests for different pages hold different locks, a    *)
(* session is opened with no lock, and a script may start several at once.  *)
(*                                                                         *)
(* Playwright's page of a target is known by the target.  Which page a      *)
(* target got is not known to the manager, who takes the only new page for  *)
(* it: `bound' may be wrong about that, and the properties say when.        *)
(***************************************************************************)
EXTENDS SelectiveTransport, Naturals

CONSTANTS
  Names,     \* names that callers give pages
  NoPage     \* nothing registered

ASSUME NamesAssumption == NoPage \notin Targets /\ Names \cap Targets = {}

VARIABLES
  op,      \* what each call asks of the manager
  pc,      \* how far it got; idle again once it is over
  seen,    \* the pages the call found when it last looked
  bound,   \* targetPages: the page registered for each target
  names,   \* entry.pages: the page registered under each name
  crossed  \* calls that saw the page of another target open while they attach

managerVars == <<op, pc, seen, bound, names, crossed>>
vars == <<transportVars, managerVars>>

Ops == [kind : {"get"}, what : Targets] \cup [kind : {"named", "close"}, what : Names]
         \cup [kind : {"list"}, what : {NoPage}]
NoOp == [kind |-> "none", what |-> NoPage]
Keys == Names \cup Targets

TypeOK ==
  /\ TransportTypeOK
  /\ op \in [Calls -> Ops \cup {NoOp}]
  /\ pc \in [Calls -> {"idle", "looking", "calling", "reading", "closing"}]
  /\ seen \in [Calls -> SUBSET Targets]
  /\ bound \in [Targets -> Targets \cup {NoPage}]
  /\ names \in [Keys -> Targets \cup {NoPage}]
  /\ crossed \subseteq Calls
  /\ \A k \in Calls : pc[k] # "calling" => call[k] = "free"

Init ==
  /\ TransportInit
  /\ op = [k \in Calls |-> NoOp]
  /\ pc = [k \in Calls |-> "idle"]
  /\ seen = [k \in Calls |-> {}]
  /\ bound = [t \in Targets |-> NoPage]
  /\ names = [n \in Keys |-> NoPage]
  /\ crossed = {}

-----------------------------------------------------------------------------
OpenPages == {t \in Targets : page[t] = "open"}
IsOpen(p) == p # NoPage /\ page[p] = "open"

(* Call `k' succeeds or fails; nothing of it is left.                       *)
End(k) ==
  /\ pc' = [pc EXCEPT ![k] = "idle"]
  /\ op' = [op EXCEPT ![k] = NoOp]
  /\ seen' = [seen EXCEPT ![k] = {}]
  /\ crossed' = crossed \ {k}
  /\ Release(k)

(* Call `k' starts and has to wait.                                         *)
Starts(k, o, next) ==
  /\ pc' = [pc EXCEPT ![k] = next]
  /\ op' = [op EXCEPT ![k] = o]

MayStart(k) == pc[k] = "idle" /\ ~closed

(* Slip: a page may be registered for two targets.                          *)
MayRegisterAnyPage(t, p) == bound[t] = p \/ ~IsOpen(bound[t])

(* registerTargetPage refuses to change the page of a target, and to give   *)
(* one page to two targets.                                                 *)
MayRegister(t, p) ==
  /\ bound[t] = p \/ ~IsOpen(bound[t])
  /\ \A u \in Targets \ {t} : bound[u] = p => page[p] # "open"

(* The page is registered and the call succeeds, or it fails.               *)
Register(k, t, p) ==
  /\ bound' = IF MayRegister(t, p) THEN [bound EXCEPT ![t] = p] ELSE bound
  /\ End(k)

(* getPage of a target: the registered page, or a look at all the pages.  A *)
(* call that is answered at once is no step but for what it forgets.        *)
BeginGet(k, t) ==
  /\ MayStart(k)
  /\ ~IsOpen(bound[t])
  /\ bound' = [bound EXCEPT ![t] = NoPage]
  /\ seen' = [seen EXCEPT ![k] = OpenPages]
  /\ Starts(k, [kind |-> "get", what |-> t], "looking")
  /\ UNCHANGED <<transportVars, names, crossed>>

(* findPageByTargetId asked every page it saw.  A page may close between    *)
(* its answer and its registration.                                         *)
LookFinds(k) ==
  /\ pc[k] = "looking"
  /\ op[k].what \in seen[k]
  /\ Register(k, op[k].what, op[k].what)
  /\ UNCHANGED names

LookFails(k) ==
  /\ pc[k] = "looking"
  /\ End(k)
  /\ UNCHANGED <<bound, names>>

LookMisses(k) ==
  /\ pc[k] = "looking"
  /\ op[k].what \in seen[k] => ~IsOpen(op[k].what)
  /\ Send(k, "list", op[k].what)
  /\ pc' = [pc EXCEPT ![k] = "calling"]
  /\ seen' = [seen EXCEPT ![k] = {}]
  /\ UNCHANGED <<op, bound, names, crossed>>

(* The target is in the list: the pages there are before it is attached are *)
(* noted, and the target is brought to the front.                           *)
GetListed(k) ==
  /\ call[k] = "list" /\ op[k].kind = "get"
  /\ \/ /\ of[k] \in live
        /\ seen' = [seen EXCEPT ![k] = OpenPages]
        /\ Send(k, "activate", of[k])
        /\ UNCHANGED <<op, pc, crossed>>
     \/ of[k] \notin live /\ End(k)
  /\ UNCHANGED <<bound, names>>

GetActivated(k) ==
  /\ call[k] = "activate"
  /\ \/ /\ of[k] \in live
        /\ Send(k, "info", of[k])
        /\ UNCHANGED <<op, pc, seen, crossed>>
     \/ of[k] \notin live /\ End(k)
  /\ UNCHANGED <<bound, names>>

(* Slip: the pages there were before the attachment count as well.          *)
NewPagesOfAnyAge(k) == OpenPages

NewPages(k) == OpenPages \ seen[k]

(* waitForNewPageAfterAttach: the only new page is taken for the target's.  *)
PollFindsOne(k) ==
  /\ call[k] = "attached"
  /\ \E p \in NewPages(k) : NewPages(k) = {p} /\ Register(k, of[k], p)
  /\ UNCHANGED names

PollFindsMany(k) ==
  /\ call[k] = "attached"
  /\ Cardinality(NewPages(k)) > 1
  /\ End(k)
  /\ UNCHANGED <<bound, names>>

(* No new page in time: the target is let go, if only to fail.              *)
PollGivesUp(k) ==
  /\ call[k] = "attached"
  /\ Send(k, "detach", of[k])
  /\ UNCHANGED managerVars

(* getPage of a name that has no open page: a new one is created.           *)
BeginNamed(k, n) ==
  /\ MayStart(k)
  /\ ~IsOpen(names[n])
  /\ names' = [names EXCEPT ![n] = NoPage]
  /\ Send(k, "create", NoTarget)
  /\ Starts(k, [kind |-> "named", what |-> n], "calling")
  /\ UNCHANGED <<seen, bound, crossed>>

(* Playwright has made a page of the target it created, or it never will.   *)
NamedCreated(k) ==
  /\ call[k] = "created"
  /\ \/ /\ page[of[k]] = "open"
        /\ names' = [names EXCEPT ![op[k].what] = of[k]]
     \/ page[of[k]] = "closed" /\ UNCHANGED names
  /\ End(k)
  /\ UNCHANGED bound

CallRefused(k) ==
  /\ call[k] = "refused"
  /\ End(k)
  /\ UNCHANGED <<bound, names>>

(* A click opened a popup, whose page is registered under its target, both  *)
(* as the target's page and as a named one (registerKnownPageTarget).       *)
RegisterPopup(p) ==
  /\ IsOpen(p)
  /\ MayRegister(p, p)
  /\ bound' = [bound EXCEPT ![p] = p]
  /\ names' = [names EXCEPT ![p] = p]
  /\ UNCHANGED <<transportVars, op, pc, seen, crossed>>

(* listPages: closed pages are forgotten, the targets listed, then every    *)
(* page that is not registered is asked for its target.                     *)
BeginList(k) ==
  /\ MayStart(k)
  /\ bound' = [t \in Targets |-> IF IsOpen(bound[t]) THEN bound[t] ELSE NoPage]
  /\ names' = [n \in Keys |-> IF IsOpen(names[n]) THEN names[n] ELSE NoPage]
  /\ Send(k, "list", NoTarget)
  /\ Starts(k, [kind |-> "list", what |-> NoPage], "calling")
  /\ UNCHANGED <<seen, crossed>>

ListListed(k) ==
  /\ call[k] = "list" /\ op[k].kind = "list"
  /\ Release(k)
  /\ pc' = [pc EXCEPT ![k] = "reading"]
  /\ seen' = [seen EXCEPT ![k] = OpenPages]
  /\ UNCHANGED <<op, bound, names, crossed>>

(* The next page: registered already, closed meanwhile or registered now.   *)
ListReads(k) ==
  /\ pc[k] = "reading"
  /\ \E p \in seen[k] :
       /\ seen' = [seen EXCEPT ![k] = @ \ {p}]
       /\ \/ /\ ~IsOpen(p) \/ \E t \in Targets : bound[t] = p
             /\ UNCHANGED bound
          \/ /\ IsOpen(p) /\ \A t \in Targets : bound[t] # p
             /\ MayRegister(p, p)
             /\ bound' = [bound EXCEPT ![p] = p]
  /\ UNCHANGED <<transportVars, op, pc, names, crossed>>

(* A page that may not be registered fails the whole listing.               *)
ListEnds(k) ==
  /\ pc[k] = "reading"
  /\ \/ seen[k] = {}
     \/ closed
     \/ \E p \in seen[k] : IsOpen(p) /\ ~MayRegister(p, p)
  /\ End(k)
  /\ UNCHANGED <<bound, names>>

(* closePage: the name is free at once, the page closes in its own time.    *)
BeginClose(k, n) ==
  /\ MayStart(k)
  /\ IsOpen(names[n])
  /\ names' = [names EXCEPT ![n] = NoPage]
  /\ seen' = [seen EXCEPT ![k] = {names[n]}]
  /\ Starts(k, [kind |-> "close", what |-> n], "closing")
  /\ UNCHANGED <<transportVars, bound, crossed>>

CloseEnds(k) ==
  /\ pc[k] = "closing"
  /\ \A p \in seen[k] : ~IsOpen(p)
  /\ End(k)
  /\ UNCHANGED <<bound, names>>

(* Slip: the name of a page that closes is freed, whosever it is by now.    *)
ListenersForgetNames ==
  /\ bound' = [t \in Targets |-> IF IsOpen(bound[t]) /\ page'[bound[t]] = "closed"
                                 THEN NoPage ELSE bound[t]]
  /\ names' = [n \in Keys |-> IF \E p \in OpenPages : page'[p] = "closed"
                              THEN NoPage ELSE names[n]]

(* The listeners of the pages that close in this step: their registrations, *)
(* and only those, are removed.                                             *)
Listeners ==
  /\ bound' = [t \in Targets |-> IF IsOpen(bound[t]) /\ page'[bound[t]] = "closed"
                                 THEN NoPage ELSE bound[t]]
  /\ names' = [n \in Keys |-> IF IsOpen(names[n]) /\ page'[names[n]] = "closed"
                              THEN NoPage ELSE names[n]]

(* A target goes away, closed by the user, by itself or by closePage.       *)
TargetCloses(t) ==
  /\ t \in live
  /\ ~closed
  /\ live' = live \ {t}
  /\ coming' = coming \ {t}
  /\ page' = [page EXCEPT ![t] = "closed"]
  /\ Listeners
  /\ UNCHANGED <<closed, unborn, call, of, held, waiter, heard, op, pc, seen, crossed>>

(* A target is let go: Playwright closes its page, if it has one.           *)
TargetDetached(k) ==
  /\ call[k] = "detach"
  /\ call' = [call EXCEPT ![k] = "refused"]
  /\ page' = [page EXCEPT ![of[k]] = "closed"]
  /\ Listeners
  /\ UNCHANGED <<closed, live, unborn, of, held, waiter, heard, coming, op, pc, seen,
                 crossed>>

(* Is call `k' between the note it took of the pages and the registration?  *)
Attaching(k) ==
  op[k].kind = "get" /\ call[k] \in {"activate", "info", "attach", "window", "attached"}

(* Playwright makes a page of a target it was told of.                      *)
PageOpens(t) ==
  /\ page[t] = "told"
  /\ ~closed
  /\ page' = [page EXCEPT ![t] = "open"]
  /\ crossed' = crossed \cup {k \in Calls : Attaching(k) /\ of[k] # t}
  /\ UNCHANGED <<closed, live, unborn, call, of, held, waiter, heard, coming, op, pc, seen,
                 bound, names>>

(* The socket closes, fails or delivers what is no CDP message.             *)
Disconnect ==
  /\ ~closed
  /\ HangUp
  /\ Listeners
  /\ UNCHANGED <<live, unborn, of, held, heard, op, pc, seen, crossed>>

(* An attachment goes on; its failure may end the connection.               *)
AttachStep(k) ==
  /\ Attaches(k)
  /\ Listeners
  /\ UNCHANGED <<op, pc, seen, crossed>>

-----------------------------------------------------------------------------
Begin(k) ==
  \/ \E t \in Targets : BeginGet(k, t)
  \/ \E n \in Names : BeginNamed(k, n) \/ BeginClose(k, n)
  \/ BeginList(k)

(* Call `k' goes on with an answer, a timer or a look at the pages.         *)
Goes(k) ==
  \/ LookFinds(k) \/ LookFails(k) \/ LookMisses(k)
  \/ GetListed(k) \/ GetActivated(k) \/ AttachStep(k)
  \/ PollFindsOne(k) \/ PollFindsMany(k) \/ PollGivesUp(k) \/ TargetDetached(k)
  \/ NamedCreated(k)
  \/ CallRefused(k)
  \/ ListListed(k) \/ ListReads(k) \/ ListEnds(k)
  \/ CloseEnds(k)

Next ==
  \/ \E k \in Calls : Begin(k) \/ Goes(k)
  \/ \E t \in Targets : \/ Report(t) /\ UNCHANGED managerVars
                        \/ RegisterPopup(t) \/ PageOpens(t) \/ TargetCloses(t)
  \/ TabOpens /\ UNCHANGED managerVars
  \/ Disconnect

Spec == Init /\ [][Next]_vars

-----------------------------------------------------------------------------
(* Whatever a call waits for will come: commands are pending only on a      *)
(* connection that is open, an answer is held back only while the attachment *)
(* goes on, and a call that asked has something to wait for.                *)
(* (selective-cdp-transport.ts:311-345)                                     *)
NothingPendsInVain ==
  \A k \in Calls :
    /\ call[k] \in Commands \cup {"create", "created"} => ~closed
    /\ k \in held => call[k] \in {"info", "attach", "window", "created", "refused"}
    /\ pc[k] = "calling" => call[k] # "free"

(* One page is never the page of two targets, however the calls that        *)
(* attach them are interleaved.  (browser-manager.ts:1366-1372)             *)
NoPageBoundTwice ==
  \A t, u \in Targets : bound[t] = bound[u] /\ IsOpen(bound[t]) => t = u

(* A target is given the page of another one only by a call that saw it     *)
(* open while it attached the target: a call nobody crosses gets the right  *)
(* page.  (browser-manager.ts:478-494 and 1510-1531)                        *)
ExactUnlessCrossed ==
  [][\A t \in Targets :
       bound'[t] # bound[t] /\ bound'[t] \notin {t, NoPage} =>
         \E k \in crossed : of[k] = t]_vars

(* A page that stays open loses its name only to closePage or to a page     *)
(* that was created for the same name meanwhile; the end of a page that was *)
(* replaced does not take the name from its successor.                      *)
(* (browser-manager.ts:1346-1355)                                           *)
NamesOutliveOthers ==
  [][\A n \in Keys :
       IsOpen(names[n]) /\ page'[names[n]] = "open" /\ names'[n] # names[n] =>
         \E k \in Calls :
           \/ op'[k] = [kind |-> "close", what |-> n] /\ pc[k] = "idle"
           \/ op[k] = [kind |-> "named", what |-> n] /\ names'[n] = of[k]]_vars
===============================================================================
