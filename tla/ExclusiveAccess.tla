--------------------------- MODULE ExclusiveAccess ---------------------------
(***************************************************************************)
(* What the browser/page lock promises its callers, without a queue, a      *)
(* record per browser or a drain: a request waits for the requests it       *)
(* conflicts with that came before it and are not over, and for nobody      *)
(* else.  It runs from the moment that set is empty until it finishes.      *)
(***************************************************************************)

CONSTANTS Browsers, Pages, Requests, WholeBrowser

VARIABLES
  target,     \* the browser each request is for
  scope,      \* what it locks: a page of that browser, or all of it
  asked,      \* the requests that wait or run
  waitsFor    \* the earlier conflicting requests each one still waits for

absVars == <<target, scope, asked, waitsFor>>

Rivals(r) ==
  {s \in asked :
    /\ target[s] = target[r]
    /\ \/ scope[s] = WholeBrowser
       \/ scope[r] = WholeBrowser
       \/ scope[s] = scope[r]}

Init ==
  /\ target \in [Requests -> Browsers]
  /\ scope \in [Requests -> Pages \cup {WholeBrowser}]
  /\ asked = {}
  /\ waitsFor = [r \in Requests |-> {}]

Ask(r) ==
  /\ r \notin asked
  /\ asked' = asked \cup {r}
  /\ waitsFor' = [waitsFor EXCEPT ![r] = Rivals(r)]
  /\ UNCHANGED <<target, scope>>

Release(r) ==
  /\ r \in asked
  /\ waitsFor[r] = {}
  /\ asked' = asked \ {r}
  /\ waitsFor' = [s \in Requests |-> waitsFor[s] \ {r}]
  /\ UNCHANGED <<target, scope>>

Next == \E r \in Requests : Ask(r) \/ Release(r)

Spec == Init /\ [][Next]_absVars
=============================================================================
