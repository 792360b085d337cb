----------------------------- MODULE InputGuards -----------------------------
(***************************************************************************)
(* What leases and confirmation tokens promise about the inputs sent to a   *)
(* page, with clocks that are exact and without maps, timers, validations   *)
(* or waits: a lease is on a page until the moment it expires or is closed, *)
(* a token is good until the moment it expires, is presented or forgotten.  *)
(* A dispatch of inputs is granted while nobody else leases the page, and   *)
(* sends once its request has no token left to show.                        *)
(***************************************************************************)
EXTENDS Naturals

CONSTANTS Names, Sessions, NoSession, Tokens, NoToken, Lifetimes

VARIABLES
  now,
  page,       \* what the page shows
  opened,     \* the sessions that were ever opened
  leases,     \* page and expiry of the leases that are on
  scope,      \* what a token confirms as long as it is good
  until,      \* when it expires, 0 before it is issued
  claim,      \* the token a request has still to show before it sends
  granted,    \* the requests with a dispatch under way
  session,    \* the session that a request names
  sent        \* the inputs it has sent

leaseVars == <<opened, leases>>
tokenVars == <<scope, until>>
requestVars == <<session, sent, claim, granted>>
absVars == <<now, page, leaseVars, tokenVars, requestVars>>

Unbound == [name |-> "none"]

NoLease == [page |-> "none", until |-> 0]

Holders(n) == {s \in Sessions : leases[s] # NoLease /\ leases[s].page = n}

Init ==
  /\ now = 0
  /\ opened = {} /\ leases = [s \in Sessions |-> NoLease]
  /\ until = [t \in Tokens |-> 0] /\ scope = [t \in Tokens |-> Unbound]
  /\ claim = [n \in Names |-> NoToken] /\ granted = {}
  /\ session = [n \in Names |-> NoSession]
  /\ sent = [n \in Names |-> 0]

-----------------------------------------------------------------------------
(* Requests, known by the name they call the page by.                       *)

Begin(n, t) ==
  /\ sent[n] = 0 /\ claim[n] = NoToken
  /\ claim' = [claim EXCEPT ![n] = t]
  /\ UNCHANGED <<now, page, session, sent, granted, tokenVars, leaseVars>>

Over(n) ==
  /\ claim' = [claim EXCEPT ![n] = NoToken]
  /\ sent' = [sent EXCEPT ![n] = 0]
  /\ session' = [session EXCEPT ![n] = NoSession]
  /\ granted' = granted \ {n}
  /\ UNCHANGED <<now, page, leaseVars>>

End(n) == Over(n) /\ UNCHANGED tokenVars

\* A confirmation ends with a token that was never issued before.
Confirm(n, t) ==
  /\ until[t] = 0 /\ until'[t] > now
  /\ \E u \in {until'[t]} : until' = [until EXCEPT ![t] = u]
  /\ \E bound \in {scope'[t]} : scope' = [scope EXCEPT ![t] = bound]
  /\ Over(n)

\* A token that is presented in vain is lost, and the request with it.
Refuse(n) ==
  /\ Over(n)
  /\ scope' = [scope EXCEPT ![claim[n]] = Unbound]
  /\ UNCHANGED until

\* A dispatch by right of session `s': nobody else leases the page.
Ask(n, s) ==
  /\ n \notin granted
  /\ sent[n] > 0 => s = session[n]
  /\ Holders(n) \subseteq {s}
  /\ session' = [session EXCEPT ![n] = s]
  /\ granted' = granted \cup {n}
  /\ UNCHANGED <<now, page, leaseVars, tokenVars, claim, sent>>

\* It shows a token that is good, for this name and this URL, and used up by it.
ShowToken(n) ==
  /\ n \in granted
  /\ claim[n] \in Tokens /\ scope[claim[n]] # Unbound
  /\ scope[claim[n]].name = n /\ scope[claim[n]].url = page.url
  /\ scope' = [scope EXCEPT ![claim[n]] = Unbound]
  /\ claim' = [claim EXCEPT ![n] = NoToken]
  /\ UNCHANGED <<now, page, leaseVars, until, session, sent, granted>>

Input(n) ==
  /\ sent' = [sent EXCEPT ![n] = @ + 1]
  /\ n \in granted /\ claim[n] = NoToken
  /\ UNCHANGED <<now, page, leaseVars, tokenVars, session, claim, granted>>

\* The next dispatch, or another attempt, has to ask again.
EndDispatch(n) ==
  /\ n \in granted
  /\ granted' = granted \ {n}
  /\ UNCHANGED <<now, page, leaseVars, tokenVars, session, claim, sent>>

-----------------------------------------------------------------------------
(* Sessions, the page and the clock.                                        *)

Open(s, n, ttl) ==
  /\ s \notin opened /\ Holders(n) = {}
  /\ opened' = opened \cup {s}
  /\ leases' = [leases EXCEPT ![s] = [page |-> n, until |-> now + ttl]]
  /\ UNCHANGED <<now, page, tokenVars, requestVars>>

Renew(s, ttl) ==
  /\ leases[s] # NoLease
  /\ leases' = [leases EXCEPT ![s].until = now + ttl]
  /\ UNCHANGED <<now, page, opened, tokenVars, requestVars>>

Close(s) ==
  /\ leases[s] # NoLease
  /\ leases' = [leases EXCEPT ![s] = NoLease]
  /\ UNCHANGED <<now, page, opened, tokenVars, requestVars>>

Forget ==
  /\ scope' = [t \in Tokens |-> Unbound]
  /\ UNCHANGED <<now, page, requestVars, until, leaseVars>>

PageChanges == UNCHANGED <<now, requestVars, tokenVars, leaseVars>>

Tick ==
  /\ now' = now + 1
  /\ leases' = [s \in Sessions |-> IF leases[s].until > now' THEN leases[s] ELSE NoLease]
  /\ scope' = [t \in Tokens |-> IF until[t] > now' THEN scope[t] ELSE Unbound]
  /\ UNCHANGED <<page, opened, until, requestVars>>

Next ==
  \/ PageChanges \/ Tick \/ Forget
  \/ \E n \in Names :
       \/ Input(n) \/ End(n) \/ Refuse(n) \/ EndDispatch(n) \/ ShowToken(n)
       \/ \E t \in Tokens \cup {NoToken} : Begin(n, t)
       \/ \E t \in Tokens : Confirm(n, t)
       \/ \E s \in Sessions \cup {NoSession} : Ask(n, s)
  \/ \E s \in Sessions :
       \/ \E n \in Names, ttl \in Lifetimes : Open(s, n, ttl)
       \/ \E ttl \in Lifetimes : Renew(s, ttl)
       \/ Close(s)

Spec == Init /\ [][Next]_absVars
=============================================================================
