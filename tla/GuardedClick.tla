----------------------------- MODULE GuardedClick -----------------------------
(***************************************************************************)
(* Confirmations, clicks and other inputs on one page                       *)
(* (executeInteractiveActionCore in daemon/src/interactive-actions.ts),     *)
(* between the waits at which the page, the clock, sessions and requests    *)
(* under another name of the page go on: what an input was decided on, what *)
(* was confirmed, who leases the page, whether a click may be tried again.  *)
(* A request holds the lock of the name it calls the page by, and the page  *)
(* may have several: the requests of the model are known by that name.      *)
(*                                                                         *)
(* Inputs are sent by dispatches.  A dispatch is validated and authorized   *)
(* once and then sends one input or several (the keys of a text, pressing,  *)
(* moving and releasing a mouse button), as late as Playwright gets to it.  *)
(* A click has one dispatch; typing, pasting and the like have several, and *)
(* which of them a request is stays open until it begins a second one.      *)
(*                                                                         *)
(* Of the page the model keeps its document, URL, visible text and what the *)
(* one target looks like (its fingerprint).  Whatever else makes an action  *)
(* fail (obstruction, ambiguity, strict states, unexpected text, ancestor   *)
(* guards, timeouts) may end it at any wait before its input.               *)
(***************************************************************************)
EXTENDS ConfirmationTokens, PageLeases

CONSTANTS
  Urls, Texts, Targets,
  MaxChanges,     \* bound: how often the page ever changes
  MaxInputs,      \* bound: inputs and dispatches of one request
  FirstState,     \* the state observed before anything happens
  Latest,         \* no --from-state: the latest state is meant
  Unchecked,      \* protocol 1 or coordinates: no state is compared
  NoToken         \* a click without --confirm-token

ASSUME MaxChangesAssumption == MaxChanges \in Nat
ASSUME MaxInputsAssumption == MaxInputs \in Nat \ {0, 1}
ASSUME MarksAssumption ==
  {FirstState, Latest, Unchecked, NoToken} \cap Tokens = {}

(* A confirmation records a state and issues a token: they share an index.  *)
States == Tokens \cup {FirstState}

VARIABLES
  page,        \* what the page shows
  changes,     \* how often it has changed
  recorded,    \* the observed states: document and target
  latest,      \* the last of them (getLatestStateId)
  req,         \* the request a caller has under way
  session,     \* the session it names, once that has mattered
  pc,          \* the wait it is at
  seen,        \* what it read of the page: text and target
  attempt,     \* the attempt of a click, or the dispatch of several, it is at
  consumed,    \* has it consumed its token?
  sent,        \* inputs sent by a caller's request
  known,       \* history: the other sessions opened by the time it asked
  presented,   \* history: tokens that were ever presented
  authorized   \* history: clicks, and requests of inputs, by each token

clickVars == <<req, session, pc, seen, attempt, consumed, sent, known>>
pageVars == <<page, changes>>
stateVars == <<recorded, latest>>
historyVars == <<presented, authorized>>
vars == <<now, leaseVars, tokenVars, pageVars, stateVars, clickVars, historyVars>>

Page == [doc : 1..(MaxChanges + 1), url : Urls, text : Texts, target : Targets]
Unrecorded == [doc |-> 0, target |-> "none"]
Unseen == [text |-> "none", target |-> "none"]

(* A confirmation, and a click with a token or without one.  Only a token   *)
(* requires --from-state and a target found by its ref; a click without one *)
(* that is compared with a state does nothing that one that is not cannot.  *)
Confirm == [kind : {"confirm"}, from : States \cup {Latest}]
Click ==
  [kind : {"click"}, from : States, token : Tokens]
  \cup [kind : {"click"}, from : {Unchecked}, token : {NoToken}]
Typing == [kind : {"type"}, from : States \cup {Unchecked}, token : Tokens \cup {NoToken}]
NoRequest == [kind |-> "none"]

Scope == [name : Names, state : Tokens, target : Targets, text : Texts, url : Urls]

TypeOK ==
  /\ now \in 0..MaxTime
  /\ LeasesTypeOK
  /\ scope \in [Tokens -> Scope \cup {Unbound}]
  /\ entries \subseteq Issued
  /\ page \in Page
  /\ changes \in 0..MaxChanges
  /\ recorded \in [States -> [doc : 1..(MaxChanges + 1), target : Targets] \cup {Unrecorded}]
  /\ latest \in States
  /\ req \in [Names -> Confirm \cup Click \cup Typing \cup {NoRequest}]
  /\ session \in [Names -> Sessions \cup {NoSession}]
  /\ pc \in [Names -> {"idle", "check", "resolve", "recheck", "authorize", "read",
                         "consume", "perceive", "issue", "dispatch"}]
  /\ attempt \in [Names -> 1..MaxInputs]
  /\ consumed \in [Names -> BOOLEAN]
  /\ sent \in [Names -> 0..MaxInputs]
  /\ known \in [Names -> SUBSET Sessions]
  /\ presented \in SUBSET Tokens
  /\ authorized \in [Tokens -> 0..2]

Init ==
  /\ now = 0
  /\ LeasesInit
  /\ TokensInit
  /\ page \in {p \in Page : p.doc = 1}
  /\ changes = 0
  /\ recorded = [k \in States |-> IF k = FirstState
                                  THEN [doc |-> 1, target |-> page.target]
                                  ELSE Unrecorded]
  /\ latest = FirstState
  /\ req = [c \in Names |-> NoRequest]
  /\ session = [c \in Names |-> NoSession]
  /\ pc = [c \in Names |-> "idle"]
  /\ seen = [c \in Names |-> Unseen]
  /\ attempt = [c \in Names |-> 1]
  /\ consumed = [c \in Names |-> FALSE]
  /\ sent = [c \in Names |-> 0]
  /\ known = [c \in Names |-> {}]
  /\ presented = {}
  /\ authorized = [t \in Tokens |-> 0]

-----------------------------------------------------------------------------
Observed == {k \in States : recorded[k] # Unrecorded}
HasToken(c) == req[c].token # NoToken
Go(c, place) == pc' = [pc EXCEPT ![c] = place]

Ended(c) ==
  /\ req' = [req EXCEPT ![c] = NoRequest]
  /\ session' = [session EXCEPT ![c] = NoSession]
  /\ pc' = [pc EXCEPT ![c] = "idle"]
  /\ seen' = [seen EXCEPT ![c] = Unseen]
  /\ attempt' = [attempt EXCEPT ![c] = 1]
  /\ consumed' = [consumed EXCEPT ![c] = FALSE]
  /\ sent' = [sent EXCEPT ![c] = 0]
  /\ known' = [known EXCEPT ![c] = {}]

(* A request gets the lock of the name it calls the page by.                *)
Begin(c) ==
  /\ pc[c] = "idle"
  /\ \E r \in Confirm \cup Click :
       /\ r.from \in Observed \cup {Latest, Unchecked}
       /\ IF r.kind = "confirm" THEN States # Observed
          ELSE r.token \in Issued \cup {NoToken}
       /\ req' = [req EXCEPT ![c] = r]
  /\ Go(c, "check")
  /\ UNCHANGED <<now, leaseVars, tokenVars, pageVars, stateVars, session, seen,
                 attempt, consumed, sent, known, historyVars>>

(* validateObservedDecisionTargeted: the target still is, in the same       *)
(* document, what it was in the state the decision was taken on.            *)
UpToDate(c) ==
  req[c].from # Unchecked =>
    LET source == recorded[IF req[c].from = Latest THEN latest ELSE req[c].from] IN
      source = [doc |-> page.doc, target |-> page.target]

(* The first validation, before anything is scrolled or read.               *)
Check(c) ==
  /\ pc[c] = "check"
  /\ UpToDate(c)
  /\ Go(c, IF req[c].kind = "confirm" THEN "read" ELSE "resolve")
  /\ UNCHANGED <<now, leaseVars, tokenVars, pageVars, stateVars, req, session,
                 seen, attempt, consumed, sent, known, historyVars>>

(* resolveRef: the target is looked up, scrolled to and hit-tested.         *)
Resolve(c) ==
  /\ pc[c] = "resolve"
  /\ seen' = [seen EXCEPT ![c].target = page.target]
  /\ Go(c, IF req[c].kind = "confirm" THEN "issue" ELSE "recheck")
  /\ UNCHANGED <<now, leaseVars, tokenVars, pageVars, stateVars, req, session,
                 attempt, consumed, sent, known, historyVars>>

(* readConfirmationText.                                                    *)
ReadText(c) ==
  /\ pc[c] = "read"
  /\ seen' = [seen EXCEPT ![c].text = page.text]
  /\ Go(c, IF req[c].kind = "confirm" THEN "perceive" ELSE "consume")
  /\ UNCHANGED <<now, leaseVars, tokenVars, pageVars, stateVars, req, session,
                 attempt, consumed, sent, known, historyVars>>

(* confirm perceives the page: a new state is recorded.                     *)
Perceive(c, t) ==
  /\ pc[c] = "perceive"
  /\ recorded[t] = Unrecorded
  /\ recorded' = [recorded EXCEPT ![t] = [doc |-> page.doc, target |-> page.target]]
  /\ latest' = t
  /\ req' = [req EXCEPT ![c].from = t]
  /\ Go(c, "resolve")
  /\ UNCHANGED <<now, leaseVars, tokenVars, pageVars, session, seen, attempt,
                 consumed, sent, known, historyVars>>

(* confirmationScope, for what the request has read and the URL of now.     *)
ScopeOf(c) ==
  [name |-> c, state |-> req[c].from, target |-> seen[c].target,
   text |-> seen[c].text, url |-> page.url]

(* confirm issues the token of that state and is over.                      *)
IssueToken(c) ==
  /\ pc[c] = "issue"
  /\ Issue(req[c].from, ScopeOf(c))
  /\ Ended(c)
  /\ UNCHANGED <<now, leaseVars, pageVars, stateVars, historyVars>>

(* The second validation of a click, in prepareClickInput.                  *)
Recheck(c) ==
  /\ pc[c] = "recheck"
  /\ UpToDate(c)
  /\ Go(c, "authorize")
  /\ UNCHANGED <<now, leaseVars, tokenVars, pageVars, stateVars, req, session,
                 seen, attempt, consumed, sent, known, historyVars>>

(* A dispatch is authorized: its inputs may follow.                         *)
Dispatch(c) ==
  /\ Go(c, "dispatch")
  /\ authorized' = [t \in Tokens |-> IF req[c].token = t /\ req[c].kind = "click"
                                     THEN authorized[t] + 1
                                     ELSE authorized[t]]
  /\ seen' = [seen EXCEPT ![c] = Unseen]
  /\ UNCHANGED <<req, attempt, sent>>

(* The session that a request names, left open until it matters: whatever   *)
(* comes after its first dispatch names the same.                           *)
NamesSession(c, s) == attempt[c] > 1 => s = session[c]

OpenedSessions == {s \in Sessions : lease[s] # NoLease}

(* Once the lease is asserted there may be a token to consume first.        *)
Authorized(c, s) ==
  /\ session' = [session EXCEPT ![c] = s]
  /\ known' = [known EXCEPT ![c] = OpenedSessions \ {s}]
  /\ UNCHANGED consumed
  /\ IF HasToken(c) /\ ~consumed[c]
     THEN Go(c, "read") /\ UNCHANGED <<req, seen, attempt, sent, authorized>>
     ELSE Dispatch(c)

(* Slip: a second dispatch does not ask for the lease again.                *)
AuthorizeOnce(c) ==
  /\ pc[c] = "authorize"
  /\ CleanUp
  /\ \E s \in Sessions \cup {NoSession} :
       /\ NamesSession(c, s)
       /\ IF attempt[c] > 1 \/ MutationAllowed(c, s)
          THEN Authorized(c, s)
          ELSE Ended(c) /\ UNCHANGED authorized
  /\ UNCHANGED <<now, lease, tokenVars, pageVars, stateVars, presented>>

(* assertMutationAllowed, once in every dispatch: may the session write to  *)
(* the page?                                                                *)
Authorize(c) ==
  /\ pc[c] = "authorize"
  /\ CleanUp
  /\ \E s \in Sessions \cup {NoSession} :
       /\ NamesSession(c, s)
       /\ IF MutationAllowed(c, s)
          THEN Authorized(c, s)
          ELSE Ended(c) /\ UNCHANGED authorized
  /\ UNCHANGED <<now, lease, tokenVars, pageVars, stateVars, presented>>

(* The token is consumed; the dispatch goes on if it stands.                *)
Consume(c) ==
  /\ pc[c] = "consume"
  /\ LET t == req[c].token
         accepted == Stands(t, ScopeOf(c))
     IN
     /\ Burn(t, accepted)
     /\ presented' = presented \cup {t}
     /\ IF accepted
        THEN /\ Dispatch(c)
             /\ consumed' = [consumed EXCEPT ![c] = TRUE]
             /\ UNCHANGED <<session, known>>
        ELSE Ended(c) /\ UNCHANGED authorized
  /\ UNCHANGED <<now, leaseVars, pageVars, stateVars>>

(* An input of the dispatch reaches the page: page.mouse.click, dragTo,     *)
(* keyboard.type with its delay, or locator.click after its own waits.      *)
(* Nobody is asked.                                                         *)
Send(c) ==
  /\ pc[c] = "dispatch"
  /\ sent[c] < MaxInputs
  /\ sent' = [sent EXCEPT ![c] = @ + 1]
  /\ UNCHANGED <<now, leaseVars, tokenVars, pageVars, stateVars, req, session, pc,
                 seen, attempt, consumed, known, historyVars>>

(* Slip: a token does not count as a guard.                                 *)
MayRetryDespiteToken(c, retry, expectText, irreversible, noticed) ==
  /\ attempt[c] < 2
  /\ ~expectText
  /\ retry = "once" => ~irreversible
  /\ retry = "safe" => ~noticed

(* retryDecision, for a click whose wait timed out: it is tried again at    *)
(* most once, and only under --retry; never under a guard, the token or     *)
(* --expect-text; under "safe" only if no effect was noticed.  Where it     *)
(* also stops for what could not be observed, End is what happens.          *)
MayRetry(c, retry, expectText, irreversible, noticed) ==
  /\ attempt[c] < 2
  /\ ~HasToken(c)
  /\ ~expectText
  /\ retry = "once" => ~irreversible
  /\ retry = "safe" => ~noticed

(* The retry policy, the expected text, the intent of the target and what   *)
(* is noticed are used only here, so they are left open until now.          *)
Retry(c) ==
  /\ pc[c] = "dispatch"
  /\ req[c].kind = "click"
  /\ sent[c] \in 1..(MaxInputs - 1)
  /\ \E retry \in {"safe", "once"}, expectText, irreversible, noticed \in BOOLEAN :
       MayRetry(c, retry, expectText, irreversible, noticed)
  /\ attempt' = [attempt EXCEPT ![c] = @ + 1]
  /\ known' = [known EXCEPT ![c] = {}]
  /\ Go(c, "check")
  /\ UNCHANGED <<now, leaseVars, tokenVars, pageVars, stateVars, req, session,
                 seen, consumed, sent, historyVars>>

(* The request turns out to have another dispatch: text after the click     *)
(* that focuses its field, or a key after the text.                         *)
NextDispatch(c) ==
  /\ pc[c] = "dispatch"
  /\ attempt[c] = 1 \/ req[c].kind = "type"
  /\ sent[c] \in 1..(MaxInputs - 1) /\ attempt[c] < MaxInputs
  /\ attempt' = [attempt EXCEPT ![c] = @ + 1]
  /\ req' = [req EXCEPT ![c].kind = "type"]
  /\ known' = [known EXCEPT ![c] = {}]
  /\ Go(c, "recheck")
  /\ UNCHANGED <<now, leaseVars, tokenVars, pageVars, stateVars, session, seen,
                 consumed, sent, historyVars>>

(* A request ends with an error at any wait, an input with its outcome.     *)
End(c) ==
  /\ pc[c] # "idle"
  /\ Ended(c)
  /\ UNCHANGED <<now, leaseVars, tokenVars, pageVars, stateVars, historyVars>>

RequestStep(c) ==
  \/ Begin(c) \/ Check(c) \/ Resolve(c) \/ Recheck(c) \/ ReadText(c)
  \/ \E t \in Tokens : Perceive(c, t)
  \/ IssueToken(c) \/ Authorize(c) \/ Consume(c) \/ Send(c) \/ Retry(c)
  \/ NextDispatch(c) \/ End(c)

-----------------------------------------------------------------------------
(* The page changes by itself, or by what was typed and clicked.            *)
PageBecomes(p) ==
  /\ changes < MaxChanges
  /\ page' = p
  /\ changes' = changes + 1
  /\ UNCHANGED <<now, leaseVars, tokenVars, stateVars, clickVars, historyVars>>

PageChanges == \E p \in Page : p # page /\ p.doc = page.doc /\ PageBecomes(p)

(* It shows another document, perhaps at the same URL with the same text.   *)
Navigates == \E p \in Page : p.doc = page.doc + 1 /\ PageBecomes(p)

(* stopBrowser, of any browser, forgets the tokens of all of them.          *)
TokensForgotten ==
  /\ Forget
  /\ UNCHANGED <<now, leaseVars, pageVars, stateVars, clickVars, historyVars>>

TokenExpires(t) ==
  /\ TimerFires(t)
  /\ UNCHANGED <<now, leaseVars, pageVars, stateVars, clickVars, historyVars>>

Sessioning ==
  /\ LeaseStep
  /\ UNCHANGED <<now, tokenVars, pageVars, stateVars, clickVars, historyVars>>

Ticks ==
  /\ TimePasses
  /\ UNCHANGED <<leaseVars, tokenVars, pageVars, stateVars, clickVars,
                 historyVars>>

Next ==
  \/ \E c \in Names : RequestStep(c)
  \/ \E t \in Tokens : TokenExpires(t)
  \/ PageChanges \/ Navigates \/ TokensForgotten \/ Sessioning \/ Ticks

Spec == Init /\ [][Next]_vars

-----------------------------------------------------------------------------
(* A token is good for one click, or the inputs of one request: whatever    *)
(* attempts, requests and names present it, and whatever they are told.     *)
TokenAuthorizesOneInput == \A t \in Tokens : authorized[t] <= 1

(* A dispatch is authorized by a token only the first time the token is     *)
(* presented by anybody, before it expires, and at the URL that was         *)
(* confirmed.                                                               *)
FirstPresentationOnly ==
  [][\A t \in Tokens :
       authorized'[t] # authorized[t] =>
         t \notin presented /\ now < until[t] /\ page.url = scope[t].url]_vars

(* An input goes to a name while another session leases it only if that     *)
(* session opened its lease after the dispatch of this input had asked for  *)
(* it: no input of a second dispatch, or of a click that is tried again,    *)
(* goes against a lease that was on before.  (The lease is asked for once   *)
(* in every dispatch, before a token's text is read and before Playwright's *)
(* own waits, though a comment in clickOnce says "immediately before        *)
(* trusted input".)                                                         *)
LeaseRespected ==
  [][\A c \in Names :
       sent'[c] > sent[c] => Writers(c) \cap known[c] = {}]_vars

(* Validations, waits, lazy clean-ups and late timers keep this promise.  A *)
(* lease is on while both maps and the clock agree that it is, a token is   *)
(* good while the map and the clock do; a request has still to show its     *)
(* token until it has consumed it; its dispatch is granted from the moment  *)
(* the lease is asserted until it is over.                                  *)
Promise == INSTANCE InputGuards WITH
  opened <- OpenedSessions,
  leases <- [s \in Sessions |-> IF s \in bySession /\ lease[s].until > now
                                THEN lease[s] ELSE NoLease],
  scope <- [t \in Tokens |-> IF until[t] > now THEN scope[t] ELSE Unbound],
  claim <- [c \in Names |-> IF req[c].kind \in {"click", "type"} /\ ~consumed[c]
                            THEN req[c].token ELSE NoToken],
  granted <- {c \in Names : /\ pc[c] \in {"read", "consume", "dispatch"}
                            /\ req[c].kind # "confirm"}

(* Every input belongs to a dispatch that was granted when nobody else had  *)
(* an exact lease, and that used up the token it needed, though leases are  *)
(* cleaned up when somebody asks, timers fire late and a request asks,      *)
(* waits and asks again.                                                    *)
(* (sessions.ts:15-67, confirmation-tokens.ts:52-118)                       *)
ImplementsInputGuards == Promise!Spec
=============================================================================
