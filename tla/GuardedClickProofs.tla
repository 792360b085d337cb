--------------------------- MODULE GuardedClickProofs ---------------------------
(***************************************************************************)
(* Proofs about confirmation tokens and leases in requests that send inputs, *)
(* for any number of names, sessions, tokens and inputs.  A token is spent   *)
(* at its first presentation and never issued again (Burned); a click that   *)
(* has consumed one has no other dispatch, so none is authorized on the      *)
(* strength of it again (Path).  A lease that is on record is on record in   *)
(* both maps (Paired), so who may write to a page according to the one is    *)
(* who leases it according to the other; of the sessions that were there     *)
(* when a dispatch asked for the lease, none gets one before it is over      *)
(* (Cleared).  The same invariant shows, action by action, that requests     *)
(* implement InputGuards.                                                    *)
(***************************************************************************)
EXTENDS GuardedClick, TLAPS

Asked == Confirm \cup Click \cup Typing

ClickTypesOK ==
  /\ req \in [Names -> Asked \cup {NoRequest}]
  /\ session \in [Names -> Sessions \cup {NoSession}]
  /\ pc \in [Names -> {"idle", "check", "resolve", "recheck", "authorize", "read",
                         "consume", "perceive", "issue", "dispatch"}]
  /\ seen \in [Names -> [text : Texts \cup {"none"}, target : Targets \cup {"none"}]]
  /\ attempt \in [Names -> 1..MaxInputs]
  /\ consumed \in [Names -> BOOLEAN]
  /\ sent \in [Names -> 0..MaxInputs]
  /\ known \in [Names -> SUBSET Sessions]

TokenTypesOK ==
  /\ now \in 0..MaxTime
  /\ scope \in [Tokens -> Scope \cup {Unbound}]
  /\ until \in [Tokens -> Nat]
  /\ entries \subseteq Issued
  /\ \A t \in Tokens : t \notin entries => scope[t] = Unbound
  /\ presented \in SUBSET Tokens
  /\ authorized \in [Tokens -> 0..2]

PageTypesOK ==
  /\ page \in Page
  /\ changes \in 0..MaxChanges
  /\ recorded \in [States -> [doc : 1..(MaxChanges + 1), target : Targets] \cup {Unrecorded}]
  /\ latest \in States

(* Where a request can be, and what it has done by then.                    *)
At(c) ==
  /\ pc[c] = "idle" => req[c] = NoRequest /\ ~consumed[c] /\ attempt[c] = 1
  /\ pc[c] # "idle" => req[c] \in Asked
  /\ sent[c] > 0 => attempt[c] > 1 \/ pc[c] = "dispatch"

Confirms(c) ==
  /\ req[c].kind = "confirm" => pc[c] \in {"check", "read", "perceive", "resolve", "issue"}
  /\ pc[c] \in {"perceive", "issue"} => req[c].kind = "confirm"
  /\ req[c].kind = "confirm" /\ pc[c] \in {"perceive", "resolve", "issue"} => seen[c].text \in Texts
  /\ req[c].kind = "confirm" /\ pc[c] \in {"resolve", "issue"} => req[c].from \in Tokens
  /\ pc[c] = "issue" => seen[c].target \in Targets

Spends(c) ==
  req[c].kind # "confirm" /\ pc[c] # "idle" =>
    /\ req[c].token \in Issued \cup {NoToken}
    /\ pc[c] \in {"read", "consume"} => req[c].token # NoToken /\ ~consumed[c]
    /\ consumed[c] => req[c].token # NoToken /\ (req[c].kind = "click" => pc[c] = "dispatch")
    /\ (sent[c] > 0 \/ pc[c] = "dispatch") /\ req[c].token # NoToken => consumed[c]

Path == \A c \in Names : At(c) /\ Confirms(c) /\ Spends(c)

Burned ==
  /\ presented \subseteq Issued
  /\ presented \cap entries = {}
  /\ \A t \in Tokens : authorized[t] <= 1 /\ (authorized[t] > 0 => t \in presented)

Paired ==
  \A s \in bySession : lease[s] \in [page : Names, until : Nat] /\ byPage[lease[s].page] = s

Cleared ==
  \A c \in Names : known[c] \subseteq OpenedSessions /\ Writers(c) \cap known[c] = {}

IInv ==
  /\ ClickTypesOK /\ TokenTypesOK /\ PageTypesOK /\ LeasesTypeOK
  /\ Path /\ Burned /\ Paired /\ Cleared

-----------------------------------------------------------------------------
(* Requests.                                                                *)

LEMMA Kinds ==
  /\ \A r \in Confirm : r.kind = "confirm" /\ r.from \in States \cup {Latest}
  /\ \A r \in Click \cup Typing : /\ r.kind \in {"click", "type"}
                                  /\ r.from \in States \cup {Unchecked}
                                  /\ r.token \in Tokens \cup {NoToken}
  /\ NoRequest.kind = "none"
BY DEF Confirm, Click, Typing, NoRequest

LEMMA AskedKinds ==
  ASSUME NEW r \in Asked
  PROVE  /\ r.kind = "confirm" => r \in Confirm
         /\ r.kind # "confirm" => r \in Click \cup Typing
BY Kinds DEF Asked

(* A typing request is one whichever request it turned out of.              *)
LEMMA Turned ==
  ASSUME NEW r \in Click \cup Typing
  PROVE  /\ [r EXCEPT !.kind = "type"] \in Typing
         /\ [r EXCEPT !.kind = "type"].kind = "type"
         /\ [r EXCEPT !.kind = "type"].token = r.token
<1>1. CASE r \in Typing
  BY <1>1 DEF Typing
<1>2. CASE r \in [kind : {"click"}, from : States, token : Tokens]
  BY <1>2 DEF Typing
<1>3. CASE r \in [kind : {"click"}, from : {Unchecked}, token : {NoToken}]
  BY <1>3 DEF Typing
<1>4. QED
  BY <1>1, <1>2, <1>3 DEF Click

LEMMA IssuedIsTokens == Issued \subseteq Tokens /\ NoToken \notin Tokens
BY MarksAssumption DEF Issued

-----------------------------------------------------------------------------
(* Parts of steps.                                                          *)

(* Nothing happens to the requests but that tokens may be issued.           *)
LEMMA RequestsRest ==
  ASSUME IInv, UNCHANGED clickVars, Issued \subseteq Issued'
  PROVE  ClickTypesOK' /\ Path'
BY DEF IInv, ClickTypesOK, Path, At, Confirms, Spends, clickVars

(* A request ends.                                                          *)
LEMMA Ending ==
  ASSUME IInv, NEW c \in Names, Ended(c), Issued \subseteq Issued'
  PROVE  ClickTypesOK' /\ Path' /\ \A d \in Names : known'[d] \subseteq known[d]
<1>1. /\ req' = [req EXCEPT ![c] = NoRequest] /\ session' = [session EXCEPT ![c] = NoSession]
      /\ pc' = [pc EXCEPT ![c] = "idle"] /\ seen' = [seen EXCEPT ![c] = Unseen]
      /\ attempt' = [attempt EXCEPT ![c] = 1] /\ consumed' = [consumed EXCEPT ![c] = FALSE]
      /\ sent' = [sent EXCEPT ![c] = 0] /\ known' = [known EXCEPT ![c] = {}]
  BY DEF Ended
<1>2. Unseen \in [text : Texts \cup {"none"}, target : Targets \cup {"none"}]
  BY DEF Unseen
<1>3. 1 \in 1..MaxInputs /\ 0 \in 0..MaxInputs
  BY MaxInputsAssumption
<1>4. ClickTypesOK'
  BY <1>1, <1>2, <1>3 DEF IInv, ClickTypesOK
<1>5. \A d \in Names \ {c} : At(d)' /\ Confirms(d)' /\ Spends(d)'
  BY <1>1 DEF IInv, ClickTypesOK, Path, At, Confirms, Spends
<1>6. At(c)' /\ Confirms(c)' /\ Spends(c)'
  BY <1>1, Kinds DEF IInv, ClickTypesOK, At, Confirms, Spends
<1>7. \A d \in Names : known'[d] \subseteq known[d]
  BY <1>1 DEF IInv, ClickTypesOK
<1>8. QED
  BY <1>4, <1>5, <1>6, <1>7 DEF Path

(* A dispatch begins, authorized for the first time or once more.           *)
LEMMA Dispatching ==
  ASSUME IInv, NEW c \in Names, pc[c] \in {"authorize", "consume"}, Dispatch(c),
         session' \in [Names -> Sessions \cup {NoSession}], known' \in [Names -> SUBSET Sessions],
         consumed' \in [Names -> BOOLEAN], \A d \in Names \ {c} : consumed'[d] = consumed[d],
         consumed'[c] <=> req[c].token # NoToken, UNCHANGED until
  PROVE  ClickTypesOK' /\ Path'
<1>1. /\ pc' = [pc EXCEPT ![c] = "dispatch"] /\ seen' = [seen EXCEPT ![c] = Unseen]
      /\ UNCHANGED <<req, attempt, sent>>
  BY DEF Dispatch, Go
<1>2. Unseen \in [text : Texts \cup {"none"}, target : Targets \cup {"none"}]
  BY DEF Unseen
<1>3. ClickTypesOK'
  BY <1>1, <1>2 DEF IInv, ClickTypesOK
<1>4. \A d \in Names \ {c} : At(d)' /\ Confirms(d)' /\ Spends(d)'
  BY <1>1 DEF IInv, ClickTypesOK, Path, At, Confirms, Spends, Issued
<1>5. At(c)'
  BY <1>1 DEF IInv, ClickTypesOK, Path, At
<1>6. req[c].kind # "confirm"
  BY DEF IInv, Path, Confirms
<1>7. Confirms(c)'
  BY <1>1, <1>6 DEF IInv, ClickTypesOK, Confirms
<1>8. Spends(c)'
  BY <1>1 DEF IInv, ClickTypesOK, Path, Spends, Issued
<1>9. QED
  BY <1>3, <1>4, <1>5, <1>7, <1>8 DEF Path

(* A request goes on between its dispatches.                                *)
LEMMA Going ==
  ASSUME IInv, NEW c \in Names, UNCHANGED until,
         NEW place \in {"check", "resolve", "recheck", "authorize", "read", "consume", "perceive",
                        "issue"},
         pc' = [pc EXCEPT ![c] = place],
         req' \in [Names -> Asked \cup {NoRequest}],
         session' \in [Names -> Sessions \cup {NoSession}],
         seen' \in [Names -> [text : Texts \cup {"none"}, target : Targets \cup {"none"}]],
         attempt' \in [Names -> 1..MaxInputs], UNCHANGED <<consumed, sent>>,
         known' \in [Names -> SUBSET Sessions],
         \A d \in Names \ {c} : req'[d] = req[d] /\ seen'[d] = seen[d] /\ attempt'[d] = attempt[d],
         At(c)', Confirms(c)', Spends(c)'
  PROVE  ClickTypesOK' /\ Path'
<1>1. ClickTypesOK'
  BY DEF IInv, ClickTypesOK
<1>2. \A d \in Names \ {c} : At(d)' /\ Confirms(d)' /\ Spends(d)'
  BY DEF IInv, ClickTypesOK, Path, At, Confirms, Spends, Issued
<1>3. QED
  BY <1>1, <1>2 DEF Path

(* Removing what has expired leaves both maps of the leases in accord.      *)
LEMMA CleaningUp ==
  ASSUME LeasesTypeOK, Paired, CleanUp, UNCHANGED lease
  PROVE  LeasesTypeOK' /\ Paired'
<1>1. LeasesTypeOK'
  BY DEF LeasesTypeOK, CleanUp, Current, Leased
<1>2. ASSUME NEW s \in bySession'
      PROVE  lease'[s] \in [page : Names, until : Nat] /\ byPage'[lease'[s].page] = s
  <2>1. s \in bySession /\ s \notin Expired
    BY <1>2 DEF CleanUp, Current
  <2>2. lease[s] \in [page : Names, until : Nat] /\ byPage[lease[s].page] = s
    BY <2>1 DEF Paired
  <2>3. QED
    BY <2>1, <2>2 DEF CleanUp, Leased
<1>3. QED
  BY <1>1, <1>2 DEF Paired

(* Nobody comes to lease a page but by opening a session.                   *)
LEMMA StillCleared ==
  ASSUME Cleared, \A d \in Names : known'[d] \subseteq known[d],
         \A s \in Sessions : lease[s] # NoLease => lease'[s] # NoLease,
         \A d \in Names : \A w \in Writers(d)' : w \in Writers(d) \/ w \notin OpenedSessions
  PROVE  Cleared'
BY DEF Cleared, OpenedSessions

LEMMA ClearedRests ==
  ASSUME IInv, UNCHANGED <<now, lease>>, CleanUp \/ UNCHANGED bySession,
         \A d \in Names : known'[d] \subseteq known[d]
  PROVE  Cleared'
<1>1. bySession' \subseteq bySession
  BY DEF CleanUp, Current
<1>2. \A d \in Names : Writers(d)' \subseteq Writers(d)
  BY <1>1 DEF Writers
<1>3. QED
  BY <1>2, StillCleared DEF IInv

-----------------------------------------------------------------------------
(* The steps of a request that authorize nothing.                           *)

LEMMA InitEstablishes ==
  ASSUME Init PROVE IInv
<1>1. Unseen \in [text : Texts \cup {"none"}, target : Targets \cup {"none"}]
  BY DEF Unseen
<1>2. 1 \in 1..MaxInputs /\ 0 \in 0..MaxInputs /\ 0 \in 0..MaxChanges /\ 0 \in 0..MaxTime
  BY MaxInputsAssumption, MaxChangesAssumption, MaxTimeAssumption
<1>3. ClickTypesOK
  BY <1>1, <1>2 DEF Init, ClickTypesOK
<1>4. TokenTypesOK /\ Burned
  BY <1>2 DEF Init, TokensInit, TokenTypesOK, Burned
<1>5. page \in Page /\ page.doc = 1 /\ page.target \in Targets /\ 1 \in 1..MaxChanges+1
  BY MaxChangesAssumption DEF Init, Page
<1>6. PageTypesOK
  BY <1>2, <1>5 DEF Init, PageTypesOK, States
<1>7. LeasesTypeOK /\ Paired /\ Cleared
  BY DEF Init, LeasesInit, LeasesTypeOK, Paired, Cleared, Writers
<1>8. Path
  BY Kinds DEF Init, Path, At, Confirms, Spends
<1>9. QED
  BY <1>3, <1>4, <1>6, <1>7, <1>8 DEF IInv

LEMMA BeginKeeps ==
  ASSUME IInv, NEW c \in Names, Begin(c) PROVE IInv'
<1>1. PICK r \in Confirm \cup Click : /\ req' = [req EXCEPT ![c] = r]
                                      /\ r.kind # "confirm" => r.token \in Issued \cup {NoToken}
  BY DEF Begin
<1>2. /\ pc[c] = "idle" /\ pc' = [pc EXCEPT ![c] = "check"]
      /\ UNCHANGED <<now, leaseVars, tokenVars, pageVars, stateVars, session, seen,
                     attempt, consumed, sent, known, historyVars>>
  BY DEF Begin, Go
<1>3. r \in Asked /\ req'[c] = r /\ pc'[c] = "check"
  BY <1>1, <1>2 DEF IInv, ClickTypesOK, Asked
<1>4. ~consumed[c] /\ attempt'[c] = attempt[c] /\ attempt[c] = 1 /\ sent'[c] = sent[c] /\ sent[c] = 0
  BY <1>2 DEF IInv, ClickTypesOK, Path, At
<1>5. At(c)' /\ Confirms(c)'
  BY <1>2, <1>3, <1>4 DEF At, Confirms
<1>6. Spends(c)'
  BY <1>1, <1>2, <1>3, <1>4 DEF Spends, Issued, tokenVars
<1>7. req' \in [Names -> Asked \cup {NoRequest}] /\ \A d \in Names \ {c} : req'[d] = req[d]
  BY <1>1, <1>3 DEF IInv, ClickTypesOK
<1>8. ClickTypesOK' /\ Path' /\ Cleared'
  BY <1>2, <1>5, <1>6, <1>7, Going, ClearedRests DEF IInv, ClickTypesOK, tokenVars, leaseVars
<1>9. QED
  BY <1>2, <1>8 DEF IInv, TokenTypesOK, PageTypesOK, LeasesTypeOK, Burned, Paired, Issued,
                    leaseVars, tokenVars, pageVars, stateVars, historyVars

(* Validations and looks at the page.                                       *)
LEMMA LookKeeps ==
  ASSUME IInv, NEW c \in Names, Check(c) \/ Resolve(c) \/ ReadText(c) \/ Recheck(c) PROVE IInv'
<1>1. UNCHANGED <<now, leaseVars, tokenVars, pageVars, stateVars, req, session, attempt, consumed,
                  sent, known, historyVars>>
  BY DEF Check, Resolve, ReadText, Recheck
<1>2. page.target \in Targets /\ page.text \in Texts
  BY DEF IInv, PageTypesOK, Page
<1>3. /\ seen' \in [Names -> [text : Texts \cup {"none"}, target : Targets \cup {"none"}]]
      /\ \A d \in Names \ {c} : seen'[d] = seen[d]
  <2>1. CASE UNCHANGED seen
    BY <2>1 DEF IInv, ClickTypesOK
  <2>2. CASE Resolve(c)
    BY <1>2, <2>2 DEF IInv, ClickTypesOK, Resolve
  <2>3. CASE ReadText(c)
    BY <1>2, <2>3 DEF IInv, ClickTypesOK, ReadText
  <2>4. QED
    BY <2>1, <2>2, <2>3 DEF Check, Recheck
<1>4. PICK place \in {"read", "resolve", "issue", "recheck", "perceive", "consume", "authorize"} :
        pc' = [pc EXCEPT ![c] = place]
  BY DEF Check, Resolve, ReadText, Recheck, Go
<1>5. /\ pc[c] \in {"check", "resolve", "read", "recheck"} /\ pc'[c] = place
      /\ place \in {"recheck", "authorize"} => req[c].kind # "confirm"
  BY <1>4 DEF IInv, ClickTypesOK, Path, Confirms, Check, Resolve, ReadText, Recheck, Go
<1>6. At(c)'
  BY <1>1, <1>4, <1>5 DEF IInv, Path, At
<1>7. Confirms(c)'
  <2>1. CASE Check(c)
    BY <1>1, <1>4, <1>5, <2>1 DEF IInv, ClickTypesOK, Confirms, Check, Go
  <2>2. CASE Resolve(c)
    BY <1>1, <1>2, <1>4, <1>5, <2>2 DEF IInv, ClickTypesOK, Path, Confirms, Resolve, Go
  <2>3. CASE ReadText(c)
    BY <1>1, <1>2, <1>4, <1>5, <2>3 DEF IInv, ClickTypesOK, Path, Confirms, ReadText, Go
  <2>4. CASE Recheck(c)
    BY <1>1, <1>4, <1>5, <2>4 DEF IInv, ClickTypesOK, Path, Confirms, Recheck, Go
  <2>5. QED
    BY <2>1, <2>2, <2>3, <2>4
<1>8. Spends(c)'
  <2>1. pc'[c] \in {"read", "consume"} /\ req[c].kind # "confirm" => pc[c] = "read"
    BY <1>4, <1>5 DEF IInv, ClickTypesOK, Check, Resolve, ReadText, Recheck, Go
  <2>2. QED
    BY <1>1, <1>4, <1>5, <2>1 DEF IInv, Path, Spends, Issued, tokenVars
<1>9. ClickTypesOK' /\ Path' /\ Cleared'
  BY <1>1, <1>3, <1>4, <1>6, <1>7, <1>8, Going, ClearedRests DEF IInv, ClickTypesOK, tokenVars, leaseVars
<1>10. QED
  BY <1>1, <1>9 DEF IInv, TokenTypesOK, PageTypesOK, LeasesTypeOK, Burned, Paired, Issued,
                    leaseVars, tokenVars, pageVars, stateVars, historyVars

LEMMA PerceiveKeeps ==
  ASSUME IInv, NEW c \in Names, NEW t \in Tokens, Perceive(c, t) PROVE IInv'
<1>1. /\ pc[c] = "perceive" /\ pc' = [pc EXCEPT ![c] = "resolve"]
      /\ recorded' = [recorded EXCEPT ![t] = [doc |-> page.doc, target |-> page.target]]
      /\ latest' = t /\ req' = [req EXCEPT ![c].from = t]
      /\ UNCHANGED <<now, leaseVars, tokenVars, pageVars, session, seen, attempt,
                     consumed, sent, known, historyVars>>
  BY DEF Perceive, Go
<1>2. page.doc \in 1..(MaxChanges + 1) /\ page.target \in Targets /\ t \in States
  BY DEF IInv, PageTypesOK, Page, States
<1>3. PageTypesOK'
  BY <1>1, <1>2 DEF IInv, PageTypesOK, pageVars
<1>4. req[c] \in Confirm /\ req[c].kind = "confirm"
  BY <1>1, AskedKinds DEF IInv, Path, At, Confirms
<1>5. [req[c] EXCEPT !.from = t] \in Confirm /\ [req[c] EXCEPT !.from = t].from = t
  BY <1>2, <1>4 DEF Confirm
<1>6. req' = [req EXCEPT ![c] = [req[c] EXCEPT !.from = t]]
  BY <1>1
<1>7. /\ req' \in [Names -> Asked \cup {NoRequest}] /\ \A d \in Names \ {c} : req'[d] = req[d]
      /\ req'[c] \in Confirm /\ req'[c].kind = "confirm" /\ req'[c].from = t /\ req'[c] \in Asked
  BY <1>5, <1>6, Kinds DEF IInv, ClickTypesOK, Asked
<1>8. pc'[c] = "resolve"
  BY <1>1 DEF IInv, ClickTypesOK
<1>9. At(c)' /\ Confirms(c)' /\ Spends(c)'
  BY <1>1, <1>4, <1>7, <1>8 DEF IInv, Path, At, Confirms, Spends
<1>10. ClickTypesOK' /\ Path' /\ Cleared'
  BY <1>1, <1>7, <1>9, Going, ClearedRests DEF IInv, ClickTypesOK, tokenVars, leaseVars
<1>11. QED
  BY <1>1, <1>3, <1>10 DEF IInv, TokenTypesOK, LeasesTypeOK, Burned, Paired, Issued,
                    leaseVars, tokenVars, historyVars

(* A token that is issued was never issued before.                          *)
LEMMA IssueKeeps ==
  ASSUME IInv, NEW c \in Names, IssueToken(c) PROVE IInv'
<1> DEFINE t == req[c].from
<1>1. /\ pc[c] = "issue" /\ Issue(t, ScopeOf(c)) /\ Ended(c)
      /\ UNCHANGED <<now, leaseVars, pageVars, stateVars, historyVars>>
  BY DEF IssueToken
<1>2. t \in Tokens /\ seen[c].text \in Texts /\ seen[c].target \in Targets /\ page.url \in Urls
  BY <1>1 DEF IInv, Path, Confirms, PageTypesOK, Page
<1>3. ScopeOf(c) \in Scope
  BY <1>2 DEF ScopeOf, Scope
<1>4. /\ until[t] = 0 /\ until' = [until EXCEPT ![t] = now + TokenLife]
      /\ scope' = [e \in Tokens |-> IF e = t THEN ScopeOf(c)
                                    ELSE IF until[e] > now THEN scope[e] ELSE Unbound]
      /\ entries' = {e \in entries : until[e] > now} \cup {t}
  BY <1>1 DEF Issue
<1>5. now + TokenLife \in Nat /\ now + TokenLife > 0
  BY TokenLifeAssumption, MaxTimeAssumption DEF IInv, TokenTypesOK
<1> HIDE DEF t
<1>6. until' \in [Tokens -> Nat] /\ Issued' = Issued \cup {t} /\ t \notin Issued
  BY <1>2, <1>4, <1>5 DEF IInv, TokenTypesOK, Issued
<1>7. TokenTypesOK'
  BY <1>1, <1>2, <1>3, <1>4, <1>6 DEF IInv, TokenTypesOK, historyVars
<1>8. Burned'
  BY <1>1, <1>4, <1>6 DEF IInv, Burned, historyVars
<1>9. ClickTypesOK' /\ Path' /\ Cleared'
  BY <1>1, <1>6, Ending, ClearedRests DEF leaseVars
<1>10. QED
  BY <1>1, <1>7, <1>8, <1>9 DEF IInv, PageTypesOK, LeasesTypeOK, Paired, leaseVars, pageVars, stateVars

LEMMA AgainKeeps ==
  ASSUME IInv, NEW c \in Names, Retry(c) \/ NextDispatch(c) PROVE IInv'
<1>1. /\ pc[c] = "dispatch" /\ attempt' = [attempt EXCEPT ![c] = @ + 1]
      /\ known' = [known EXCEPT ![c] = {}]
      /\ UNCHANGED <<now, leaseVars, tokenVars, pageVars, stateVars, session,
                     seen, consumed, sent, historyVars>>
  BY DEF Retry, NextDispatch
<1>2. req[c] \in Click \cup Typing /\ req[c].kind # "confirm"
  BY <1>1, AskedKinds DEF IInv, Path, At, Confirms
<1>3. attempt[c] \in 1..MaxInputs /\ attempt[c] < MaxInputs
  <2>1. attempt[c] \in 1..MaxInputs /\ MaxInputs \in Nat /\ MaxInputs >= 2
    BY MaxInputsAssumption DEF IInv, ClickTypesOK
  <2>2. attempt[c] < 2 \/ attempt[c] < MaxInputs
    BY DEF Retry, MayRetry, NextDispatch
  <2>3. QED
    BY <2>1, <2>2
<1>4. /\ attempt' \in [Names -> 1..MaxInputs] /\ attempt'[c] = attempt[c] + 1
      /\ \A d \in Names \ {c} : attempt'[d] = attempt[d]
  <2>1. attempt[c] + 1 \in 1..MaxInputs
    BY <1>3, MaxInputsAssumption
  <2>2. QED
    BY <1>1, <2>1 DEF IInv, ClickTypesOK
<1>5. PICK place \in {"check", "recheck"} : pc' = [pc EXCEPT ![c] = place]
  BY DEF Retry, NextDispatch, Go
<1>6. pc'[c] = place
  BY <1>5 DEF IInv, ClickTypesOK
<1>7. /\ req' \in [Names -> Asked \cup {NoRequest}] /\ \A d \in Names \ {c} : req'[d] = req[d]
      /\ req'[c] \in Asked /\ req'[c].kind # "confirm" /\ req'[c].token = req[c].token
      /\ req'[c].kind = "click" => Retry(c)
  <2>1. CASE Retry(c)
    BY <1>2, <2>1 DEF IInv, ClickTypesOK, Retry, Asked
  <2>2. CASE NextDispatch(c)
    <3>1. req' = [req EXCEPT ![c] = [req[c] EXCEPT !.kind = "type"]]
      BY <2>2 DEF NextDispatch
    <3>2. QED
      BY <1>2, <3>1, Turned DEF IInv, ClickTypesOK, Asked
  <2>3. QED
    BY <2>1, <2>2
<1>8. At(c)'
  BY <1>1, <1>3, <1>4, <1>6, <1>7 DEF IInv, ClickTypesOK, Path, At
<1>9. Confirms(c)'
  BY <1>6, <1>7 DEF Confirms
<1>10. Spends(c)'
  <2>1. /\ req[c].token \in Issued \cup {NoToken} /\ (consumed[c] => req[c].token # NoToken)
        /\ sent[c] > 0 /\ req[c].token # NoToken => consumed[c]
    BY <1>1, <1>2 DEF IInv, Path, Spends
  <2>2. Retry(c) => req[c].token = NoToken
    BY DEF Retry, MayRetry, HasToken
  <2>3. QED
    BY <1>1, <1>6, <1>7, <2>1, <2>2 DEF Spends, Issued, tokenVars
<1>11. /\ known' \in [Names -> SUBSET Sessions]
       /\ \A d \in Names : known'[d] \subseteq known[d]
  BY <1>1 DEF IInv, ClickTypesOK
<1>12. ClickTypesOK' /\ Path' /\ Cleared'
  BY <1>1, <1>4, <1>5, <1>7, <1>8, <1>9, <1>10, <1>11, Going, ClearedRests
     DEF IInv, ClickTypesOK, tokenVars, leaseVars
<1>13. QED
  BY <1>1, <1>12 DEF IInv, TokenTypesOK, PageTypesOK, LeasesTypeOK, Burned, Paired, Issued,
                    leaseVars, tokenVars, pageVars, stateVars, historyVars

-----------------------------------------------------------------------------
(* The steps that authorize a dispatch, and its inputs.                     *)

(* Inputs ask nobody, and change nothing but what is sent.                  *)
LEMMA SendKeeps ==
  ASSUME IInv, NEW c \in Names, Send(c) PROVE IInv'
<1>1. /\ pc[c] = "dispatch" /\ sent[c] < MaxInputs /\ sent' = [sent EXCEPT ![c] = @ + 1]
      /\ UNCHANGED <<now, leaseVars, tokenVars, pageVars, stateVars, req, session, pc,
                     seen, attempt, consumed, known, historyVars>>
  BY DEF Send
<1>2. sent[c] + 1 \in 0..MaxInputs
  BY <1>1, MaxInputsAssumption DEF IInv, ClickTypesOK
<1>3. ClickTypesOK'
  BY <1>1, <1>2 DEF IInv, ClickTypesOK
<1>4. ASSUME NEW d \in Names PROVE At(d)' /\ Confirms(d)' /\ Spends(d)'
  BY <1>1 DEF IInv, ClickTypesOK, Path, At, Confirms, Spends, Issued, tokenVars
<1>5. Path' /\ Cleared'
  BY <1>1, <1>4, ClearedRests DEF Path, leaseVars
<1>6. QED
  BY <1>1, <1>3, <1>5 DEF IInv, TokenTypesOK, PageTypesOK, LeasesTypeOK, Burned, Paired, Issued,
                    leaseVars, tokenVars, pageVars, stateVars, historyVars

(* Who may write to a page according to one map leases it according to the  *)
(* other.                                                                   *)
LEMMA WritersMayWrite ==
  ASSUME IInv, NEW n \in Names, NEW s, MutationAllowed(n, s), NEW w \in Writers(n)
  PROVE  w = s
<1>1. w \in bySession /\ lease[w].page = n /\ lease[w].until > now
  BY DEF Writers
<1>2. byPage[n] = w /\ w \in Sessions /\ lease[w].until \in Nat
  BY <1>1 DEF IInv, Paired, LeasesTypeOK
<1>3. now \in Nat
  BY MaxTimeAssumption DEF IInv, TokenTypesOK
<1>4. w \notin Expired
  BY <1>1, <1>2, <1>3 DEF Expired
<1>5. Leased[n] = w
  BY <1>2, <1>4 DEF Leased
<1>6. QED
  BY <1>2, <1>5, NoSessionAssumption DEF MutationAllowed

LEMMA AuthorizeKeeps ==
  ASSUME IInv, NEW c \in Names, Authorize(c) PROVE IInv'
<1>1. PICK s \in Sessions \cup {NoSession} :
        IF MutationAllowed(c, s) THEN Authorized(c, s) ELSE Ended(c) /\ UNCHANGED authorized
  BY DEF Authorize
<1>2. /\ pc[c] = "authorize" /\ CleanUp
      /\ UNCHANGED <<now, lease, tokenVars, pageVars, stateVars, presented>>
  BY DEF Authorize
<1>3. LeasesTypeOK' /\ Paired'
  BY <1>2, CleaningUp DEF IInv
<1>4. PageTypesOK'
  BY <1>2 DEF IInv, PageTypesOK, pageVars, stateVars
<1>5. req[c] \in Click \cup Typing /\ req[c].kind # "confirm"
  BY <1>2, AskedKinds DEF IInv, Path, At, Confirms
<1>6. consumed[c] => req[c].token # NoToken /\ req[c].kind # "click"
  BY <1>2, <1>5 DEF IInv, Path, Spends
<1>7. authorized' = authorized /\ ClickTypesOK' /\ Path' /\ Cleared'
  <2>1. CASE Ended(c) /\ UNCHANGED authorized
    BY <1>2, <2>1, Ending, ClearedRests DEF Issued, tokenVars
  <2>2. CASE Authorized(c, s) /\ MutationAllowed(c, s)
    <3>1. /\ session' = [session EXCEPT ![c] = s] /\ UNCHANGED consumed
          /\ known' = [known EXCEPT ![c] = OpenedSessions \ {s}]
      BY <2>2 DEF Authorized
    <3>2. /\ session' \in [Names -> Sessions \cup {NoSession}]
          /\ known' \in [Names -> SUBSET Sessions]
      BY <3>1 DEF IInv, ClickTypesOK, OpenedSessions
    <3>3. Cleared'
      <4>1. Writers(c) \cap (OpenedSessions \ {s}) = {}
        BY <2>2, WritersMayWrite
      <4>2. \A d \in Names : Writers(d)' \subseteq Writers(d)
        BY <1>2 DEF Writers, CleanUp, Current
      <4>3. OpenedSessions' = OpenedSessions
        BY <1>2 DEF OpenedSessions
      <4>4. ASSUME NEW d \in Names
            PROVE  known'[d] \subseteq OpenedSessions' /\ Writers(d)' \cap known'[d] = {}
        <5>1. CASE d = c
          <6>1. known'[d] = OpenedSessions \ {s}
            BY <3>1, <5>1 DEF IInv, ClickTypesOK
          <6>2. QED
            BY <4>1, <4>2, <4>3, <5>1, <6>1
        <5>2. CASE d # c
          BY <3>1, <4>2, <4>3, <5>2 DEF IInv, ClickTypesOK, Cleared
        <5>3. QED
          BY <5>1, <5>2
      <4>5. QED
        BY <4>4 DEF Cleared
    <3>4. CASE HasToken(c) /\ ~consumed[c]
      <4>1. /\ pc' = [pc EXCEPT ![c] = "read"]
            /\ UNCHANGED <<req, seen, attempt, consumed, sent, authorized>>
        BY <2>2, <3>4 DEF Authorized, Go
      <4>2. pc'[c] = "read"
        BY <4>1 DEF IInv, ClickTypesOK
      <4>3. At(c)' /\ Confirms(c)' /\ Spends(c)'
        BY <1>2, <1>5, <3>4, <4>1, <4>2 DEF IInv, Path, At, Confirms, Spends, HasToken, Issued, tokenVars
      <4>4. QED
        BY <1>2, <3>2, <3>3, <4>1, <4>2, <4>3, Going DEF IInv, ClickTypesOK, tokenVars
    <3>5. CASE ~(HasToken(c) /\ ~consumed[c])
      <4>1. Dispatch(c)
        BY <2>2, <3>5 DEF Authorized
      <4>2. \A t \in Tokens : ~(req[c].token = t /\ req[c].kind = "click")
        BY <1>6, <3>5, IssuedIsTokens DEF HasToken
      <4>3. authorized' = authorized
        BY <4>1, <4>2 DEF IInv, TokenTypesOK, Dispatch
      <4>4. consumed'[c] <=> req[c].token # NoToken
        BY <1>6, <3>1, <3>5 DEF HasToken
      <4>5. QED
        BY <1>2, <3>1, <3>2, <3>3, <4>1, <4>3, <4>4, Dispatching DEF IInv, ClickTypesOK, tokenVars
    <3>6. QED
      BY <3>4, <3>5
  <2>3. QED
    BY <1>1, <2>1, <2>2
<1>8. QED
  BY <1>2, <1>3, <1>4, <1>7 DEF IInv, TokenTypesOK, Burned, Issued, tokenVars

(* What consuming a token authorizes it authorizes once.                    *)
LEMMA ConsumeKeeps ==
  ASSUME IInv, NEW c \in Names, Consume(c)
  PROVE  /\ IInv'
         /\ \A t \in Tokens : authorized'[t] # authorized[t] =>
              t \notin presented /\ now < until[t] /\ page.url = scope[t].url
<1> DEFINE t == req[c].token
           accepted == Stands(t, ScopeOf(c))
<1>1. /\ pc[c] = "consume" /\ Burn(t, accepted) /\ presented' = presented \cup {t}
      /\ IF accepted
         THEN /\ Dispatch(c) /\ consumed' = [consumed EXCEPT ![c] = TRUE]
              /\ UNCHANGED <<session, known>>
         ELSE Ended(c) /\ UNCHANGED authorized
      /\ UNCHANGED <<now, leaseVars, pageVars, stateVars>>
  BY DEF Consume
<1>2. /\ entries' = entries \ {t} /\ UNCHANGED until /\ Issued' = Issued
      /\ scope' = [e \in Tokens |-> IF e \in {t} THEN Unbound ELSE scope[e]]
  BY <1>1 DEF Burn, Remove, Issued
<1>3. t \in Issued /\ t \in Tokens
  BY <1>1, IssuedIsTokens DEF IInv, Path, Confirms, Spends
<1>4. LeasesTypeOK' /\ Paired' /\ PageTypesOK'
  BY <1>1 DEF IInv, LeasesTypeOK, Paired, PageTypesOK, leaseVars, pageVars, stateVars
<1>5. accepted => t \in entries /\ now < until[t] /\ scope[t].url = page.url
  BY DEF Stands, ScopeOf
<1>6. accepted => t \notin presented /\ authorized[t] = 0
  BY <1>3, <1>5 DEF IInv, Burned, TokenTypesOK
<1>7. ClickTypesOK' /\ Path' /\ Cleared'
  <2>1. CASE accepted
    <3>1. /\ Dispatch(c) /\ consumed' = [consumed EXCEPT ![c] = TRUE]
          /\ UNCHANGED <<session, known>>
      BY <1>1, <2>1
    <3>2. /\ session' \in [Names -> Sessions \cup {NoSession}] /\ consumed' \in [Names -> BOOLEAN]
          /\ known' \in [Names -> SUBSET Sessions]
          /\ \A d \in Names \ {c} : consumed'[d] = consumed[d]
      BY <3>1 DEF IInv, ClickTypesOK
    <3>3. req[c].token # NoToken
      BY <1>3, IssuedIsTokens
    <3>4. QED
      BY <1>1, <1>2, <3>1, <3>2, <3>3, Dispatching, ClearedRests DEF leaseVars
  <2>2. CASE ~accepted
    BY <1>1, <1>2, <2>2, Ending, ClearedRests DEF leaseVars
  <2>3. QED
    BY <2>1, <2>2
<1> HIDE DEF t, accepted
<1>8. /\ authorized' \in [Tokens -> 0..2]
      /\ \A u \in Tokens : u # t => authorized'[u] = authorized[u]
      /\ authorized'[t] = authorized[t] \/ (accepted /\ authorized'[t] = 1)
  <2>1. CASE accepted
    <3>1. authorized' = [u \in Tokens |-> IF t = u /\ req[c].kind = "click" THEN authorized[u] + 1
                                          ELSE authorized[u]]
      BY <1>1, <2>1 DEF Dispatch, t
    <3>2. \A u \in Tokens : u # t => authorized'[u] = authorized[u]
      BY <3>1
    <3>3. authorized'[t] \in {authorized[t], 1}
      BY <1>3, <1>6, <2>1, <3>1
    <3>4. authorized \in [Tokens -> 0..2]
      BY DEF IInv, TokenTypesOK
    <3>5. \A u \in Tokens : authorized'[u] \in 0..2
      BY <1>3, <3>2, <3>3, <3>4
    <3>6. QED
      BY <2>1, <3>1, <3>2, <3>3, <3>5
  <2>2. CASE ~accepted
    BY <1>1, <2>2 DEF IInv, TokenTypesOK
  <2>3. QED
    BY <2>1, <2>2
<1>9. TokenTypesOK'
  BY <1>1, <1>2, <1>3, <1>8 DEF IInv, TokenTypesOK
<1>10. Burned'
  BY <1>1, <1>2, <1>3, <1>8 DEF IInv, Burned
<1>11. \A u \in Tokens : authorized'[u] # authorized[u] =>
          u \notin presented /\ now < until[u] /\ page.url = scope[u].url
  BY <1>5, <1>6, <1>8
<1>12. QED
  BY <1>4, <1>7, <1>9, <1>10, <1>11 DEF IInv

-----------------------------------------------------------------------------
(* Everything beside the requests.                                          *)

LEMMA EndKeeps ==
  ASSUME IInv, NEW c \in Names, End(c) PROVE IInv'
<1>1. Ended(c) /\ UNCHANGED <<now, leaseVars, tokenVars, pageVars, stateVars, historyVars>>
  BY DEF End
<1>2. ClickTypesOK' /\ Path' /\ Cleared'
  BY <1>1, Ending, ClearedRests DEF Issued, tokenVars, leaseVars
<1>3. QED
  BY <1>1, <1>2 DEF IInv, TokenTypesOK, PageTypesOK, LeasesTypeOK, Burned, Paired, Issued,
                    leaseVars, tokenVars, pageVars, stateVars, historyVars

LEMMA PageKeeps ==
  ASSUME IInv, PageChanges \/ Navigates PROVE IInv'
<1>1. PICK p \in Page : PageBecomes(p)
  BY DEF PageChanges, Navigates
<1>2. PageTypesOK'
  BY <1>1, MaxChangesAssumption DEF IInv, PageTypesOK, PageBecomes, stateVars
<1>3. ClickTypesOK' /\ Path' /\ Cleared'
  BY <1>1, RequestsRest, ClearedRests DEF PageBecomes, Issued, tokenVars, clickVars, leaseVars
<1>4. QED
  BY <1>1, <1>2, <1>3 DEF IInv, TokenTypesOK, LeasesTypeOK, Burned, Paired, Issued, PageBecomes,
                          leaseVars, tokenVars, historyVars

LEMMA TokensDieKeeps ==
  ASSUME IInv, TokensForgotten \/ (\E t \in Tokens : TokenExpires(t)) \/ Ticks PROVE IInv'
<1>1. /\ UNCHANGED <<leaseVars, pageVars, stateVars, clickVars, historyVars, until>>
      /\ now' \in 0..MaxTime /\ now' >= now /\ entries' \subseteq entries
  BY MaxTimeAssumption
     DEF IInv, TokenTypesOK, TokensForgotten, Forget, TokenExpires, TimerFires, Remove, Ticks, TimePasses,
         tokenVars
<1>2. /\ scope' \in [Tokens -> Scope \cup {Unbound}]
      /\ \A t \in Tokens : t \notin entries' => scope'[t] = Unbound
  BY DEF IInv, TokenTypesOK, TokensForgotten, Forget, TokenExpires, TimerFires, Remove, Ticks, tokenVars
<1>3. ClickTypesOK' /\ Path'
  BY <1>1, RequestsRest DEF Issued
<1>4. \A d \in Names : Writers(d)' \subseteq Writers(d)
  BY <1>1 DEF IInv, TokenTypesOK, Paired, Writers, leaseVars
<1>5. Cleared'
  BY <1>1, <1>4, StillCleared DEF IInv, clickVars, leaseVars
<1>6. QED
  BY <1>1, <1>2, <1>3, <1>5 DEF IInv, TokenTypesOK, PageTypesOK, LeasesTypeOK, Burned, Paired, Issued,
                    leaseVars, pageVars, stateVars, historyVars

LEMMA OpenLeaseKeeps ==
  ASSUME LeasesTypeOK, Paired, now \in Nat, NEW s \in Sessions, NEW n \in Names, NEW ttl \in Lifetimes,
         OpenLease(s, n, ttl)
  PROVE  LeasesTypeOK' /\ Paired'
<1>1. /\ lease' = [lease EXCEPT ![s] = [page |-> n, until |-> now + ttl]]
      /\ bySession' = Current \cup {s} /\ byPage' = [Leased EXCEPT ![n] = s] /\ Leased[n] = NoSession
  BY DEF OpenLease
<1>2. [page |-> n, until |-> now + ttl] \in [page : Names, until : Nat]
  BY LifetimesAssumption
<1>3. LeasesTypeOK'
  BY <1>1, <1>2 DEF LeasesTypeOK, Current, Leased
<1>4. ASSUME NEW r \in bySession'
      PROVE  lease'[r] \in [page : Names, until : Nat] /\ byPage'[lease'[r].page] = r
  <2>1. CASE r = s
    BY <1>1, <1>2, <2>1 DEF LeasesTypeOK, Leased
  <2>2. CASE r # s
    <3>1. r \in bySession /\ r \notin Expired /\ r \in Sessions
      BY <1>1, <1>4, <2>2 DEF Current, LeasesTypeOK
    <3>2. lease[r] \in [page : Names, until : Nat] /\ byPage[lease[r].page] = r /\ lease'[r] = lease[r]
      BY <1>1, <2>2, <3>1 DEF Paired, LeasesTypeOK
    <3>3. Leased[lease[r].page] = r
      BY <3>1, <3>2 DEF Leased
    <3>4. lease[r].page # n
      BY <1>1, <3>1, <3>3, NoSessionAssumption
    <3>5. QED
      BY <1>1, <3>2, <3>3, <3>4 DEF Leased
  <2>3. QED
    BY <2>1, <2>2
<1>5. QED
  BY <1>3, <1>4 DEF Paired

LEMMA RenewLeaseKeeps ==
  ASSUME LeasesTypeOK, Paired, now \in Nat, NEW s \in Sessions, NEW ttl \in Lifetimes, RenewLease(s, ttl)
  PROVE  LeasesTypeOK' /\ Paired'
<1>1. /\ s \in bySession /\ lease' = [lease EXCEPT ![s].until = now + ttl]
      /\ bySession' = Current /\ byPage' = Leased
  BY DEF RenewLease, CleanUp, Current
<1>2. lease[s] \in [page : Names, until : Nat] /\ now + ttl \in Nat
  BY <1>1, LifetimesAssumption DEF Paired
<1>3. [lease[s] EXCEPT !.until = now + ttl] \in [page : Names, until : Nat]
  BY <1>2
<1>4. lease' = [lease EXCEPT ![s] = [lease[s] EXCEPT !.until = now + ttl]]
  BY <1>1
<1>5. LeasesTypeOK'
  BY <1>1, <1>3, <1>4 DEF LeasesTypeOK, Current, Leased
<1>6. ASSUME NEW r \in bySession'
      PROVE  lease'[r] \in [page : Names, until : Nat] /\ byPage'[lease'[r].page] = r
  <2>1. r \in bySession /\ r \notin Expired /\ r \in Sessions
    BY <1>1, <1>6 DEF Current, LeasesTypeOK
  <2>2. lease[r] \in [page : Names, until : Nat] /\ byPage[lease[r].page] = r
    BY <2>1 DEF Paired
  <2>3. lease'[r] \in [page : Names, until : Nat] /\ lease'[r].page = lease[r].page
    BY <1>2, <1>3, <1>4, <2>1, <2>2 DEF LeasesTypeOK
  <2>4. QED
    BY <1>1, <2>1, <2>2, <2>3 DEF Leased
<1>7. QED
  BY <1>5, <1>6 DEF Paired

LEMMA CloseLeaseKeeps ==
  ASSUME LeasesTypeOK, Paired, NEW s \in Sessions, CloseLease(s)
  PROVE  LeasesTypeOK' /\ Paired'
<1>1. /\ lease' = lease /\ bySession' = Current \ {s}
      /\ byPage' = [n \in Names |-> IF Leased[n] = s THEN NoSession ELSE Leased[n]]
  BY DEF CloseLease
<1>2. LeasesTypeOK'
  BY <1>1 DEF LeasesTypeOK, Current, Leased
<1>3. ASSUME NEW r \in bySession'
      PROVE  lease'[r] \in [page : Names, until : Nat] /\ byPage'[lease'[r].page] = r
  <2>1. r \in bySession /\ r \notin Expired /\ r # s
    BY <1>1, <1>3 DEF Current
  <2>2. lease[r] \in [page : Names, until : Nat] /\ byPage[lease[r].page] = r
    BY <2>1 DEF Paired
  <2>3. Leased[lease[r].page] = r
    BY <2>1, <2>2 DEF Leased
  <2>4. QED
    BY <1>1, <2>1, <2>2, <2>3
<1>4. QED
  BY <1>2, <1>3 DEF Paired

(* No session that was there before comes to lease a page.                  *)
LEMMA SessioningClears ==
  ASSUME IInv, Sessioning PROVE Cleared'
<1>1. LeaseStep /\ UNCHANGED <<now, known>>
  BY DEF Sessioning, clickVars
<1>2. now \in Nat /\ \A w \in bySession : w \in Sessions /\ lease[w].until \in Nat
  BY MaxTimeAssumption DEF IInv, TokenTypesOK, LeasesTypeOK, Paired
<1>3. lease \in [Sessions -> [page : Names, until : Nat] \cup {NoLease}]
  BY DEF IInv, LeasesTypeOK
<1>4. ASSUME NEW s \in Sessions, NEW n \in Names, NEW ttl \in Lifetimes, OpenLease(s, n, ttl)
      PROVE  Cleared'
  <2>1. /\ lease[s] = NoLease /\ bySession' = Current \cup {s}
        /\ lease' = [lease EXCEPT ![s] = [page |-> n, until |-> now + ttl]]
    BY <1>4 DEF OpenLease
  <2>2. \A r \in Sessions \ {s} : lease'[r] = lease[r]
    BY <1>3, <2>1
  <2>3. \A d \in Names : \A w \in Writers(d)' : w \in Writers(d) \/ w \notin OpenedSessions
    BY <1>1, <1>2, <2>1, <2>2 DEF Writers, Current, OpenedSessions
  <2>4. \A r \in Sessions : lease[r] # NoLease => lease'[r] # NoLease
    BY <2>1, <2>2
  <2>5. QED
    BY <1>1, <2>3, <2>4, StillCleared DEF IInv
<1>5. ASSUME NEW s \in Sessions, NEW ttl \in Lifetimes, RenewLease(s, ttl)
      PROVE  Cleared'
  <2>1. /\ s \in bySession /\ s \notin Expired /\ bySession' \subseteq bySession
        /\ lease' = [lease EXCEPT ![s] = [lease[s] EXCEPT !.until = now + ttl]]
    BY <1>5 DEF RenewLease, CleanUp, Current
  <2>2. /\ lease[s] \in [page : Names, until : Nat] /\ lease[s].until > now
        /\ now + ttl # 0
    BY <1>2, <2>1, LifetimesAssumption DEF IInv, Paired, Expired
  <2>3. /\ \A r \in Sessions \ {s} : lease'[r] = lease[r]
        /\ lease'[s].page = lease[s].page /\ lease'[s] # NoLease
    BY <1>3, <2>1, <2>2 DEF NoLease
  <2>4. \A d \in Names : Writers(d)' \subseteq Writers(d)
    BY <1>1, <1>2, <2>1, <2>2, <2>3 DEF Writers
  <2>5. QED
    BY <1>1, <2>3, <2>4, StillCleared DEF IInv
<1>6. ASSUME NEW s \in Sessions, CloseLease(s)
      PROVE  Cleared'
  <2>1. lease' = lease /\ bySession' \subseteq bySession
    BY <1>6 DEF CloseLease, Current
  <2>2. \A d \in Names : Writers(d)' \subseteq Writers(d)
    BY <1>1, <2>1 DEF Writers
  <2>3. QED
    BY <1>1, <2>1, <2>2, StillCleared DEF IInv
<1>7. QED
  BY <1>1, <1>4, <1>5, <1>6 DEF LeaseStep

LEMMA SessioningKeeps ==
  ASSUME IInv, Sessioning PROVE IInv'
<1>1. LeaseStep /\ UNCHANGED <<now, tokenVars, pageVars, stateVars, clickVars, historyVars>>
  BY DEF Sessioning
<1>2. now \in Nat
  BY MaxTimeAssumption DEF IInv, TokenTypesOK
<1>3. LeasesTypeOK' /\ Paired'
  BY <1>1, <1>2, OpenLeaseKeeps, RenewLeaseKeeps, CloseLeaseKeeps DEF IInv, LeaseStep
<1>4. ClickTypesOK' /\ Path'
  BY <1>1, RequestsRest DEF Issued, tokenVars
<1>5. Cleared'
  BY SessioningClears
<1>6. QED
  BY <1>1, <1>3, <1>4, <1>5 DEF IInv, TokenTypesOK, PageTypesOK, Burned, Issued, tokenVars, pageVars,
                          stateVars, historyVars

LEMMA NextKeeps ==
  ASSUME IInv, [Next]_vars PROVE IInv'
<1>1. ASSUME NEW c \in Names, RequestStep(c) PROVE IInv'
  BY <1>1, BeginKeeps, LookKeeps, PerceiveKeeps, IssueKeeps, AuthorizeKeeps, ConsumeKeeps, SendKeeps,
     AgainKeeps, EndKeeps DEF RequestStep
<1>2. CASE UNCHANGED vars
  <2>1. ClickTypesOK' /\ Path' /\ Cleared'
    BY <1>2, RequestsRest, ClearedRests DEF Issued, vars, tokenVars, clickVars, leaseVars
  <2>2. QED
    BY <1>2, <2>1 DEF IInv, TokenTypesOK, PageTypesOK, LeasesTypeOK, Burned, Paired, Issued, vars,
                      leaseVars, tokenVars, pageVars, stateVars, historyVars
<1>3. CASE Next
  BY <1>1, <1>3, PageKeeps, TokensDieKeeps, SessioningKeeps DEF Next
<1>4. QED
  BY <1>2, <1>3

-----------------------------------------------------------------------------
(* The inductive invariant holds in every reachable state.                  *)
THEOREM ClickInvariance == Spec => []IInv
<1>1. Init => IInv
  BY InitEstablishes
<1>2. IInv /\ [Next]_vars => IInv'
  BY NextKeeps
<1>3. QED
  BY <1>1, <1>2, PTL DEF Spec

(* The type invariant.                                                      *)
THEOREM ClickTypeCorrect == Spec => []TypeOK
<1>1. IInv => TypeOK
  BY DEF IInv, ClickTypesOK, TokenTypesOK, PageTypesOK, TypeOK, Asked
<1>2. QED
  BY <1>1, ClickInvariance, PTL

(* A token is good for one click, or the inputs of one request.             *)
(* (confirmation-tokens.ts, interactive-actions.ts)                         *)
THEOREM TokensAreGoodOnce == Spec => []TokenAuthorizesOneInput
<1>1. IInv => TokenAuthorizesOneInput
  BY DEF IInv, Burned, TokenAuthorizesOneInput
<1>2. QED
  BY <1>1, ClickInvariance, PTL

(* Only a request that asserts its lease, or consumes its token, authorizes *)
(* a dispatch, and only one that has a dispatch sends.                      *)
LEMMA WhoSends ==
  ASSUME IInv, Next
  PROVE  /\ \A c \in Names : sent'[c] > sent[c] => Send(c)
         /\ authorized' # authorized => \E d \in Names : Authorize(d) \/ Consume(d)
<1>1. \/ UNCHANGED <<sent, authorized>>
      \/ \E d \in Names : RequestStep(d)
  BY DEF Next, TokenExpires, PageChanges, Navigates, PageBecomes, TokensForgotten, Sessioning, Ticks,
         clickVars, historyVars
<1>2. sent \in [Names -> Nat]
  BY DEF IInv, ClickTypesOK
<1>3. ASSUME NEW d \in Names, RequestStep(d)
      PROVE  /\ authorized' # authorized => Authorize(d) \/ Consume(d)
             /\ \/ sent' = sent \/ sent' = [sent EXCEPT ![d] = 0]
                \/ Send(d) /\ sent' = [sent EXCEPT ![d] = @ + 1]
  BY <1>3 DEF RequestStep, Begin, Check, Resolve, Recheck, ReadText, Perceive, IssueToken, Authorize,
              Authorized, Consume, Dispatch, Send, Retry, NextDispatch, End, Ended, historyVars
<1>4. QED
  BY <1>1, <1>2, <1>3

(* A token authorizes only on its first presentation, before it expires and *)
(* at the URL that was confirmed.                                           *)
(* (confirmation-tokens.ts, interactive-actions.ts)                         *)
THEOREM TokensAreSpentAtOnce == Spec => FirstPresentationOnly
<1>1. ASSUME IInv, Next, NEW t \in Tokens, authorized'[t] # authorized[t]
      PROVE  t \notin presented /\ now < until[t] /\ page.url = scope[t].url
  <2>1. PICK c \in Names : Authorize(c) \/ Consume(c)
    BY <1>1, WhoSends
  <2>2. ASSUME Authorize(c) PROVE FALSE
    <3>1. pc[c] = "authorize"
      BY <2>2 DEF Authorize
    <3>2. req[c] \in Click \cup Typing /\ req[c].kind # "confirm"
      BY <1>1, <3>1, AskedKinds DEF IInv, Path, At, Confirms
    <3>3. consumed[c] => req[c].kind # "click"
      BY <1>1, <3>1, <3>2 DEF IInv, Path, Spends
    <3>4. \/ UNCHANGED authorized
          \/ Dispatch(c) /\ ~(HasToken(c) /\ ~consumed[c])
      BY <2>2 DEF Authorize, Authorized
    <3>5. ~(HasToken(c) /\ ~consumed[c]) => ~(req[c].token = t /\ req[c].kind = "click")
      BY <3>3, IssuedIsTokens DEF HasToken
    <3>6. QED
      BY <1>1, <3>4, <3>5 DEF Dispatch
  <2>3. Consume(c)
    BY <2>1, <2>2
  <2>4. QED
    BY <1>1, <2>3, ConsumeKeeps
<1>2. IInv /\ [Next]_vars =>
        [\A t \in Tokens :
           authorized'[t] # authorized[t] =>
             t \notin presented /\ now < until[t] /\ page.url = scope[t].url]_vars
  BY <1>1
<1>3. QED
  BY <1>2, ClickInvariance, PTL DEF Spec, FirstPresentationOnly

(* An input goes to a page that another session leases only if its lease    *)
(* was opened after the dispatch of the input had asked.                    *)
(* (sessions.ts, interactive-actions.ts)                                    *)
THEOREM LeasesAreRespected == Spec => LeaseRespected
<1>1. ASSUME IInv, Next, NEW c \in Names, sent'[c] > sent[c]
      PROVE  Writers(c) \cap known[c] = {}
  BY <1>1 DEF IInv, Cleared
<1>2. IInv /\ [Next]_vars =>
        [\A c \in Names : sent'[c] > sent[c] => Writers(c) \cap known[c] = {}]_vars
  BY <1>1
<1>3. QED
  BY <1>2, ClickInvariance, PTL DEF Spec, LeaseRespected

-----------------------------------------------------------------------------
(* What the steps do to the leases and tokens as InputGuards sees them.     *)

LeasesOn == [s \in Sessions |-> IF s \in bySession /\ lease[s].until > now THEN lease[s] ELSE NoLease]
Good == [t \in Tokens |-> IF until[t] > now THEN scope[t] ELSE Unbound]
Claims == [c \in Names |-> IF req[c].kind \in {"click", "type"} /\ ~consumed[c]
                           THEN req[c].token ELSE NoToken]
Granted == {c \in Names : pc[c] \in {"read", "consume", "dispatch"} /\ req[c].kind # "confirm"}

(* A lease that is on has both maps and the clock for it.                   *)
LEMMA OnLease ==
  ASSUME IInv
  PROVE  /\ now \in Nat /\ \A s \in bySession : s \in Sessions /\ lease[s].until \in Nat
         /\ \A s \in Sessions : LeasesOn[s] # NoLease <=> s \in Current
         /\ \A s \in Current : LeasesOn[s] = lease[s] /\ Leased[lease[s].page] = s /\ s \in OpenedSessions
<1>1. now \in Nat /\ \A s \in bySession : s \in Sessions /\ lease[s].until \in Nat
  BY MaxTimeAssumption DEF IInv, TokenTypesOK, LeasesTypeOK, Paired
<1>2. \A s \in Sessions : s \in bySession /\ lease[s].until > now => lease[s] # NoLease
  BY <1>1 DEF NoLease
<1>3. \A s \in Sessions : s \in Current <=> s \in bySession /\ lease[s].until > now
  BY <1>1 DEF Current, Expired
<1>4. \A s \in Current : Leased[lease[s].page] = s
  BY <1>1 DEF IInv, Paired, Current, Leased
<1>5. \A s \in Current : s \in Sessions
  BY <1>1 DEF Current
<1>6. QED
  BY <1>1, <1>2, <1>3, <1>4, <1>5 DEF LeasesOn, OpenedSessions

(* Removing what has expired, or nothing, changes no lease that is on.      *)
LEMMA LeasesStand ==
  ASSUME IInv, UNCHANGED <<now, lease>>, CleanUp \/ UNCHANGED bySession
  PROVE  LeasesOn' = LeasesOn /\ OpenedSessions' = OpenedSessions
<1>1. \A s \in Sessions : s \in bySession' /\ lease[s].until > now <=> s \in bySession /\ lease[s].until > now
  BY OnLease DEF CleanUp, Current, Expired
<1>2. QED
  BY <1>1 DEF LeasesOn, OpenedSessions

LEMMA HoldersMayWrite ==
  ASSUME IInv, NEW n \in Names, NEW s, MutationAllowed(n, s)
  PROVE  \A w \in Sessions : LeasesOn[w] # NoLease /\ LeasesOn[w].page = n => w = s
BY OnLease, NoSessionAssumption DEF MutationAllowed

(* One request has another token to show, or none.                          *)
LEMMA ClaimOfOne ==
  ASSUME IInv, NEW c \in Names, NEW t, Claims'[c] = t,
         \A d \in Names \ {c} : req'[d] = req[d] /\ consumed'[d] = consumed[d]
  PROVE  Claims' = [Claims EXCEPT ![c] = t]
BY DEF Claims

(* One request has a dispatch, or has none.                                 *)
LEMMA GrantOfOne ==
  ASSUME IInv, NEW c \in Names,
         \A d \in Names \ {c} : req'[d] = req[d] /\ pc'[d] = pc[d]
  PROVE  Granted' = IF pc'[c] \in {"read", "consume", "dispatch"} /\ req'[c].kind # "confirm"
                    THEN Granted \cup {c} ELSE Granted \ {c}
BY DEF Granted

LEMMA EndIsOver ==
  ASSUME IInv, NEW c \in Names, Ended(c), UNCHANGED <<now, page>>,
         UNCHANGED lease, CleanUp \/ UNCHANGED bySession
  PROVE  Promise!Over(c)
<1>1. Claims'[c] = NoToken /\ \A d \in Names \ {c} : req'[d] = req[d] /\ consumed'[d] = consumed[d]
  BY Kinds DEF Ended, IInv, ClickTypesOK, Claims
<1>2. Claims' = [Claims EXCEPT ![c] = NoToken]
  BY <1>1, ClaimOfOne
<1>3. LeasesOn' = LeasesOn /\ OpenedSessions' = OpenedSessions
  BY LeasesStand
<1>4. Granted' = Granted \ {c}
  BY GrantOfOne DEF Ended, IInv, ClickTypesOK
<1>5. QED
  BY <1>2, <1>3, <1>4 DEF Ended, Claims, Granted, LeasesOn, Promise!Over, Promise!leaseVars

-----------------------------------------------------------------------------
(* The steps of a request keep the promise.                                 *)

LEMMA BeginKeepsPromise ==
  ASSUME IInv, NEW c \in Names, Begin(c)
  PROVE  \E t \in Tokens \cup {NoToken} : Promise!Begin(c, t)
<1>1. PICK r \in Confirm \cup Click : req' = [req EXCEPT ![c] = r]
  BY DEF Begin
<1>2. /\ pc[c] = "idle"
      /\ UNCHANGED <<now, leaseVars, tokenVars, page, session, consumed, sent>>
  BY DEF Begin, pageVars
<1>3. req[c] = NoRequest /\ ~consumed[c] /\ sent[c] = 0
  BY <1>2 DEF IInv, ClickTypesOK, Path, At
<1> DEFINE t == IF r.kind = "confirm" THEN NoToken ELSE r.token
<1>4. t \in Tokens \cup {NoToken}
  BY Kinds
<1>5. Claims[c] = NoToken /\ Claims'[c] = t
  BY <1>1, <1>2, <1>3, Kinds DEF IInv, ClickTypesOK, Claims
<1> HIDE DEF t
<1>6. Claims' = [Claims EXCEPT ![c] = t]
  BY <1>1, <1>2, <1>5, ClaimOfOne DEF IInv, ClickTypesOK
<1>7. Granted' = Granted
  BY <1>1, <1>2, GrantOfOne DEF Begin, Go, IInv, ClickTypesOK, Granted
<1>8. Promise!Begin(c, t)
  BY <1>2, <1>3, <1>5, <1>6, <1>7
     DEF Claims, Granted, leaseVars, OpenedSessions, tokenVars, Promise!Begin, Promise!leaseVars, Promise!tokenVars
<1>9. QED
  BY <1>4, <1>8

(* Validating, looking and perceiving is nothing to it, and trying again is *)
(* the end of a dispatch.                                                   *)
LEMMA GoingEndsAtMost ==
  ASSUME IInv, NEW c \in Names,
         \/ Check(c) \/ Resolve(c) \/ ReadText(c) \/ Recheck(c) \/ Retry(c) \/ NextDispatch(c)
         \/ \E t \in Tokens : Perceive(c, t)
  PROVE  UNCHANGED Promise!absVars \/ Promise!EndDispatch(c)
<1>1. UNCHANGED <<now, leaseVars, tokenVars, page, session, consumed, sent>>
  BY DEF Check, Resolve, ReadText, Recheck, Retry, NextDispatch, Perceive, pageVars
<1>2. Claims' = Claims
  <2>1. CASE UNCHANGED req
    BY <1>1, <2>1 DEF Claims
  <2>2. CASE NextDispatch(c)
    <3>1. req[c] \in Click \cup Typing /\ req' = [req EXCEPT ![c] = [req[c] EXCEPT !.kind = "type"]]
      BY <2>2, AskedKinds DEF IInv, Path, At, Confirms, NextDispatch
    <3>2. Claims'[c] = Claims[c]
      BY <1>1, <3>1, Kinds, Turned DEF IInv, ClickTypesOK, Claims
    <3>3. QED
      BY <1>1, <3>1, <3>2 DEF IInv, ClickTypesOK, Claims
  <2>3. ASSUME NEW t \in Tokens, Perceive(c, t) PROVE Claims' = Claims
    <3>1. req[c].kind = "confirm" /\ req' = [req EXCEPT ![c] = [req[c] EXCEPT !.from = t]]
      BY <2>3 DEF IInv, Path, Confirms, Perceive
    <3>2. req'[c].kind = "confirm"
      BY <2>3, <3>1, AskedKinds DEF IInv, ClickTypesOK, Path, At, Perceive, Confirm
    <3>3. QED
      BY <1>1, <3>1, <3>2 DEF IInv, ClickTypesOK, Claims
  <2>4. QED
    BY <2>1, <2>2, <2>3 DEF Check, Resolve, ReadText, Recheck, Retry
<1>3. Granted' = Granted \/ (Granted' = Granted \ {c} /\ c \in Granted)
  <2>1. \A d \in Names \ {c} : req'[d] = req[d] /\ pc'[d] = pc[d]
    BY DEF IInv, ClickTypesOK, Check, Resolve, ReadText, Recheck, Retry, NextDispatch, Perceive, Go
  <2>2. \/ pc'[c] \notin {"read", "consume", "dispatch"}
        \/ req'[c].kind = "confirm" /\ req[c].kind = "confirm"
        \/ ReadText(c) /\ UNCHANGED req
    BY DEF IInv, ClickTypesOK, Check, Resolve, ReadText, Recheck, Retry, NextDispatch, Perceive, Go
  <2>3. ReadText(c) => pc[c] = "read"
    BY DEF ReadText
  <2>4. QED
    BY <2>1, <2>2, <2>3, GrantOfOne DEF Granted
<1>4. UNCHANGED <<Promise!leaseVars, Promise!tokenVars>>
  BY <1>1 DEF leaseVars, tokenVars, OpenedSessions, Promise!leaseVars, Promise!tokenVars
<1>5. CASE Granted' = Granted
  BY <1>1, <1>2, <1>4, <1>5 DEF Claims, Granted, Promise!absVars, Promise!requestVars
<1>6. CASE Granted' = Granted \ {c} /\ c \in Granted
  BY <1>1, <1>2, <1>4, <1>6 DEF Claims, Granted, Promise!EndDispatch
<1>7. QED
  BY <1>3, <1>5, <1>6

LEMMA IssueKeepsPromise ==
  ASSUME IInv, NEW c \in Names, IssueToken(c)
  PROVE  \E t \in Tokens : Promise!Confirm(c, t)
<1>1. /\ pc[c] = "issue" /\ Issue(req[c].from, ScopeOf(c)) /\ Ended(c)
      /\ UNCHANGED <<now, leaseVars, pageVars, stateVars, historyVars>>
  BY DEF IssueToken
<1>2. PICK t \in Tokens : t = req[c].from
  BY <1>1 DEF IInv, Path, Confirms
<1>3. /\ until[t] = 0 /\ until' = [until EXCEPT ![t] = now + TokenLife]
      /\ scope' = [e \in Tokens |-> IF e = t THEN ScopeOf(c)
                                    ELSE IF until[e] > now THEN scope[e] ELSE Unbound]
  BY <1>1, <1>2 DEF Issue
<1>4. now + TokenLife \in Nat /\ now + TokenLife > now
  BY TokenLifeAssumption, OnLease
<1>5. until'[t] = now + TokenLife /\ \A e \in Tokens \ {t} : until'[e] = until[e]
  BY <1>2, <1>3 DEF IInv, TokenTypesOK
<1>6. Good' = [Good EXCEPT ![t] = Good'[t]]
  BY <1>1, <1>3, <1>4, <1>5 DEF Good
<1>7. Promise!Over(c)
  BY <1>1, EndIsOver DEF leaseVars, pageVars
<1>8. Promise!Confirm(c, t)
  BY <1>3, <1>4, <1>5, <1>6, <1>7 DEF Promise!Confirm, Good
<1>9. QED
  BY <1>8

LEMMA AuthorizeKeepsPromise ==
  ASSUME IInv, NEW c \in Names, Authorize(c)
  PROVE  \/ Promise!End(c)
         \/ \E s \in Sessions \cup {NoSession} : Promise!Ask(c, s)
<1>1. PICK s \in Sessions \cup {NoSession} :
        /\ NamesSession(c, s)
        /\ IF MutationAllowed(c, s) THEN Authorized(c, s) ELSE Ended(c) /\ UNCHANGED authorized
  BY DEF Authorize
<1>2. /\ pc[c] = "authorize" /\ CleanUp
      /\ UNCHANGED <<now, lease, tokenVars, page>>
  BY DEF Authorize, pageVars
<1>3. LeasesOn' = LeasesOn /\ OpenedSessions' = OpenedSessions
  BY <1>2, LeasesStand
<1>4. req[c].kind # "confirm" /\ (sent[c] > 0 => attempt[c] > 1)
  BY <1>2 DEF IInv, Path, At, Confirms
<1>5. CASE Ended(c)
  BY <1>2, <1>5, EndIsOver DEF Promise!End, Promise!tokenVars, tokenVars
<1>6. CASE Authorized(c, s) /\ MutationAllowed(c, s)
  <2>1. /\ session' = [session EXCEPT ![c] = s] /\ UNCHANGED <<req, consumed, sent>>
    BY <1>6 DEF Authorized, Dispatch
  <2>2. PICK place \in {"read", "dispatch"} : pc' = [pc EXCEPT ![c] = place]
    BY <1>6 DEF Authorized, Dispatch, Go
  <2>3. Granted' = Granted \cup {c} /\ c \notin Granted
    BY <1>2, <1>4, <2>1, <2>2, GrantOfOne DEF IInv, ClickTypesOK, Granted
  <2>4. Promise!Holders(c) \subseteq {s}
    BY <1>6, HoldersMayWrite DEF Promise!Holders, Promise!NoLease, NoLease, LeasesOn
  <2>5. sent[c] > 0 => s = session[c]
    BY <1>1, <1>4 DEF NamesSession
  <2>6. Promise!Ask(c, s)
    BY <1>2, <1>3, <2>1, <2>3, <2>4, <2>5 DEF Promise!Ask, Promise!leaseVars, Promise!tokenVars,
                                  LeasesOn, Claims, Granted, tokenVars
  <2>7. QED
    BY <2>6
<1>7. QED
  BY <1>1, <1>5, <1>6

LEMMA SendKeepsPromise ==
  ASSUME IInv, NEW c \in Names, Send(c)
  PROVE  Promise!Input(c)
<1>1. /\ pc[c] = "dispatch" /\ sent' = [sent EXCEPT ![c] = @ + 1]
      /\ UNCHANGED <<now, leaseVars, tokenVars, page, req, session, pc, consumed>>
  BY DEF Send, pageVars
<1>2. c \in Granted /\ Claims[c] = NoToken
  BY <1>1 DEF IInv, Path, Confirms, Spends, Granted, Claims
<1>3. UNCHANGED <<Promise!leaseVars, Promise!tokenVars>>
  BY <1>1 DEF leaseVars, tokenVars, OpenedSessions, Promise!leaseVars, Promise!tokenVars
<1>4. QED
  BY <1>1, <1>2, <1>3 DEF Promise!Input, Claims, Granted

LEMMA ConsumeKeepsPromise ==
  ASSUME IInv, NEW c \in Names, Consume(c)
  PROVE  Promise!ShowToken(c) \/ Promise!Refuse(c)
<1> DEFINE t == req[c].token
           accepted == Stands(t, ScopeOf(c))
<1>1. /\ pc[c] = "consume" /\ Burn(t, accepted)
      /\ IF accepted
         THEN /\ Dispatch(c) /\ consumed' = [consumed EXCEPT ![c] = TRUE]
              /\ UNCHANGED <<session, known>>
         ELSE Ended(c) /\ UNCHANGED authorized
      /\ UNCHANGED <<now, leaseVars, page>>
  BY DEF Consume, pageVars
<1>2. UNCHANGED until /\ scope' = [e \in Tokens |-> IF e \in {t} THEN Unbound ELSE scope[e]]
  BY <1>1 DEF Burn, Remove
<1>3. req[c].kind \in {"click", "type"} /\ ~consumed[c] /\ t \in Tokens
  BY <1>1, AskedKinds, Kinds, IssuedIsTokens DEF IInv, Path, At, Confirms, Spends
<1>4. Claims[c] = t /\ Good' = [Good EXCEPT ![t] = Unbound]
  BY <1>1, <1>2, <1>3 DEF Claims, Good
<1>5. accepted => Good[t] = ScopeOf(c)
  BY <1>3, OnLease DEF Stands, Good, IInv, TokenTypesOK
<1>6. CASE accepted
  <2>1. /\ consumed' = [consumed EXCEPT ![c] = TRUE] /\ UNCHANGED <<req, session, sent>>
        /\ pc' = [pc EXCEPT ![c] = "dispatch"]
    BY <1>1, <1>6 DEF Dispatch, Go
  <2>2. Claims'[c] = NoToken /\ \A d \in Names \ {c} : req'[d] = req[d] /\ consumed'[d] = consumed[d]
    BY <2>1 DEF IInv, ClickTypesOK, Claims
  <2>3. Claims' = [Claims EXCEPT ![c] = NoToken]
    BY <2>2, ClaimOfOne
  <2>4. Granted' = Granted /\ c \in Granted
    BY <1>1, <1>3, <2>1, GrantOfOne DEF IInv, ClickTypesOK, Granted
  <2>5. LeasesOn' = LeasesOn /\ OpenedSessions' = OpenedSessions
    BY <1>1, LeasesStand DEF leaseVars
  <2>6. Good[t] # Unbound /\ Good[t].name = c /\ Good[t].url = page.url
    BY <1>5, <1>6 DEF ScopeOf, Unbound
  <2> HIDE DEF t, accepted
  <2>7. Promise!ShowToken(c)
    BY <1>1, <1>2, <1>3, <1>4, <1>5, <1>6, <2>1, <2>3, <2>4, <2>5, <2>6
       DEF Promise!ShowToken, Promise!Unbound, Promise!leaseVars, Unbound, LeasesOn, Claims, Good, Granted
  <2>8. QED
    BY <2>7
<1>7. CASE ~accepted
  <2>1. Promise!Over(c)
    BY <1>1, <1>7, EndIsOver DEF leaseVars
  <2> HIDE DEF t, accepted
  <2>2. Promise!Refuse(c)
    BY <1>2, <1>4, <2>1 DEF Promise!Refuse, Promise!Unbound, Unbound, Claims, Good
  <2>3. QED
    BY <2>2
<1>8. QED
  BY <1>6, <1>7

-----------------------------------------------------------------------------
(* So do sessions, the page and the clock.                                  *)

LEMMA SessioningKeepsPromise ==
  ASSUME IInv, Sessioning
  PROVE  Promise!Next
<1>1. UNCHANGED <<now, page, tokenVars, req, pc, consumed, session, sent>>
  BY DEF Sessioning, pageVars, clickVars
<1>2. UNCHANGED <<Promise!tokenVars, Promise!requestVars>>
  BY <1>1 DEF Promise!tokenVars, Promise!requestVars, tokenVars
<1>3. ASSUME NEW s \in Sessions, NEW n \in Names, NEW ttl \in Lifetimes, OpenLease(s, n, ttl)
      PROVE  Promise!Open(s, n, ttl)
  <2> DEFINE new == [page |-> n, until |-> now + ttl]
  <2>1. /\ lease[s] = NoLease /\ Leased[n] = NoSession
        /\ lease' = [lease EXCEPT ![s] = new] /\ bySession' = Current \cup {s}
    BY <1>3 DEF OpenLease
  <2>2. now + ttl > now /\ now + ttl # 0 /\ now + ttl \in Nat /\ new # NoLease /\ new.until = now + ttl
    BY OnLease, LifetimesAssumption DEF NoLease
  <2> HIDE DEF new
  <2>3. lease'[s] = new /\ \A r \in Sessions \ {s} : lease'[r] = lease[r]
    BY <2>1 DEF IInv, LeasesTypeOK
  <2>4. s \notin OpenedSessions /\ OpenedSessions' = OpenedSessions \cup {s}
    BY <2>1, <2>2, <2>3 DEF OpenedSessions
  <2>5. LeasesOn'[s] = new
    BY <1>1, <2>1, <2>2, <2>3 DEF LeasesOn
  <2>6. \A r \in Sessions \ {s} : LeasesOn'[r] = LeasesOn[r]
    BY <1>1, <2>1, <2>3, OnLease DEF LeasesOn, Current, Expired
  <2>7. LeasesOn' = [LeasesOn EXCEPT ![s] = new]
    BY <2>5, <2>6 DEF LeasesOn
  <2>8. Promise!Holders(n) = {}
    <3>1. \A w \in Current : lease[w].page = n => w = NoSession
      BY <2>1, OnLease
    <3>2. \A w \in Sessions : ~(LeasesOn[w] # NoLease /\ LeasesOn[w].page = n)
      BY <3>1, OnLease, NoSessionAssumption
    <3>3. QED
      BY <3>2 DEF Promise!Holders, Promise!NoLease, NoLease, LeasesOn
  <2>9. QED
    BY <1>1, <1>2, <2>4, <2>7, <2>8 DEF Promise!Open, LeasesOn, OpenedSessions, new
<1>4. ASSUME NEW s \in Sessions, NEW ttl \in Lifetimes, RenewLease(s, ttl)
      PROVE  Promise!Renew(s, ttl)
  <2>1. s \in Current /\ lease' = [lease EXCEPT ![s].until = now + ttl] /\ bySession' = Current
    BY <1>4 DEF RenewLease, CleanUp
  <2>2. now + ttl > now /\ now + ttl # 0
    BY OnLease, LifetimesAssumption
  <2>3. lease[s] \in [page : Names, until : Nat] /\ LeasesOn[s] = lease[s] /\ LeasesOn[s] # NoLease
    BY <2>1, OnLease DEF IInv, Paired, Current
  <2>4. lease'[s] = [lease[s] EXCEPT !.until = now + ttl] /\ \A r \in Sessions \ {s} : lease'[r] = lease[r]
    BY <2>1 DEF IInv, LeasesTypeOK
  <2>5. lease'[s].until = now + ttl /\ lease'[s] # NoLease
    BY <2>2, <2>3, <2>4 DEF NoLease
  <2>6. OpenedSessions' = OpenedSessions
    BY <2>1, <2>4, <2>5, OnLease DEF OpenedSessions
  <2>7. LeasesOn'[s] = lease'[s]
    BY <1>1, <2>1, <2>2, <2>5 DEF LeasesOn
  <2>8. \A r \in Sessions \ {s} : LeasesOn'[r] = LeasesOn[r]
    BY <1>1, <2>1, <2>4, OnLease DEF LeasesOn, Current, Expired
  <2>9. LeasesOn' = [LeasesOn EXCEPT ![s] = [LeasesOn[s] EXCEPT !.until = now + ttl]]
    BY <2>3, <2>4, <2>7, <2>8 DEF LeasesOn
  <2>10. LeasesOn' = [LeasesOn EXCEPT ![s].until = now + ttl]
    BY <2>9
  <2>11. QED
    BY <1>1, <1>2, <2>3, <2>6, <2>10 DEF Promise!Renew, Promise!NoLease, NoLease, LeasesOn, OpenedSessions
<1>5. ASSUME NEW s \in Sessions, CloseLease(s)
      PROVE  Promise!Close(s)
  <2>1. s \in Current /\ lease' = lease /\ bySession' = Current \ {s}
    BY <1>5 DEF CloseLease
  <2>2. LeasesOn[s] # NoLease /\ OpenedSessions' = OpenedSessions
    BY <2>1, OnLease DEF OpenedSessions
  <2>3. LeasesOn'[s] = NoLease
    BY <2>1 DEF LeasesOn
  <2>4. \A r \in Sessions \ {s} : LeasesOn'[r] = LeasesOn[r]
    BY <1>1, <2>1, OnLease DEF LeasesOn, Current, Expired
  <2>5. LeasesOn' = [LeasesOn EXCEPT ![s] = NoLease]
    BY <2>3, <2>4 DEF LeasesOn
  <2>6. QED
    BY <1>1, <1>2, <2>2, <2>5 DEF Promise!Close, Promise!NoLease, NoLease, LeasesOn, OpenedSessions
<1>6. QED
  BY <1>3, <1>4, <1>5 DEF Sessioning, LeaseStep, Promise!Next

(* Late timers go unnoticed, and the clock ends what it should.             *)
LEMMA TimeKeepsPromise ==
  ASSUME IInv, \/ (\E t \in Tokens : TokenExpires(t)) \/ TokensForgotten \/ Ticks
               \/ PageChanges \/ Navigates
  PROVE  [Promise!Next]_(Promise!absVars)
<1>1. UNCHANGED <<leaseVars, until, req, pc, consumed, session, sent>>
  BY DEF TokenExpires, Remove, TimerFires, TokensForgotten, Forget, Ticks, PageChanges, Navigates, PageBecomes,
         clickVars, tokenVars
<1>2. UNCHANGED Promise!requestVars
  BY <1>1 DEF Promise!requestVars
<1>3. UNCHANGED now => UNCHANGED Promise!leaseVars
  BY <1>1 DEF Promise!leaseVars, leaseVars, OpenedSessions
<1>4. ASSUME NEW t \in Tokens, TokenExpires(t) PROVE UNCHANGED Promise!absVars
  <2>1. /\ until[t] <= now /\ UNCHANGED <<now, page>>
        /\ scope' = [e \in Tokens |-> IF e \in {t} THEN Unbound ELSE scope[e]]
    BY <1>4 DEF TokenExpires, TimerFires, Remove, pageVars
  <2>2. until[t] \in Nat /\ now \in Nat
    BY OnLease DEF IInv, TokenTypesOK
  <2>3. Good' = Good
    BY <1>1, <2>1, <2>2 DEF Good
  <2>4. QED
    BY <1>1, <1>2, <1>3, <2>1, <2>3 DEF Good, Promise!absVars, Promise!tokenVars
<1>5. ASSUME TokensForgotten PROVE Promise!Forget
  <2>1. /\ UNCHANGED <<now, page>>
        /\ scope' = [t \in Tokens |-> IF t \in entries THEN Unbound ELSE scope[t]]
    BY <1>5 DEF TokensForgotten, Forget, Remove, pageVars
  <2>2. \A t \in Tokens : scope'[t] = Unbound
    BY <2>1 DEF IInv, TokenTypesOK
  <2>3. Good' = [t \in Tokens |-> Unbound]
    BY <2>2 DEF Good
  <2>4. QED
    BY <1>1, <1>2, <1>3, <2>1, <2>3 DEF Good, Promise!Forget, Promise!Unbound, Unbound
<1>6. ASSUME Ticks PROVE Promise!Tick
  <2>1. now' = now + 1 /\ UNCHANGED <<page, scope>>
    BY <1>6 DEF Ticks, TimePasses, pageVars, tokenVars
  <2>2. \A s \in Sessions : LeasesOn'[s] = IF LeasesOn[s].until > now' THEN LeasesOn[s] ELSE NoLease
    BY <1>1, <2>1, OnLease DEF LeasesOn, NoLease, leaseVars
  <2>3. LeasesOn' = [s \in Sessions |-> IF LeasesOn[s].until > now' THEN LeasesOn[s] ELSE NoLease]
    BY <2>2 DEF LeasesOn
  <2>4. Good' = [t \in Tokens |-> IF until[t] > now' THEN Good[t] ELSE Unbound]
    BY <1>1, <2>1, OnLease DEF Good, IInv, TokenTypesOK
  <2>5. QED
    BY <1>1, <1>2, <2>1, <2>3, <2>4 DEF Promise!Tick, Promise!NoLease, NoLease, Promise!Unbound, Unbound,
                                                 LeasesOn, Good, leaseVars, OpenedSessions
<1>7. PageChanges \/ Navigates => Promise!PageChanges
  BY <1>1, <1>2, <1>3 DEF PageChanges, Navigates, PageBecomes, tokenVars, Promise!PageChanges, Promise!tokenVars
<1>8. QED
  BY <1>4, <1>5, <1>6, <1>7 DEF Promise!Next

(* Every input belongs to a dispatch that was granted by exact leases and   *)
(* by a token that it used up.                                              *)
(* (sessions.ts, confirmation-tokens.ts, interactive-actions.ts)            *)
THEOREM GuardsRefinement == Spec => ImplementsInputGuards
<1>1. Init => Promise!Init
  BY Kinds DEF Init, LeasesInit, TokensInit, OpenedSessions, Promise!Init, Promise!NoLease, NoLease,
               Promise!Unbound, Unbound
<1>2. IInv /\ [Next]_vars => [Promise!Next]_(Promise!absVars)
  <2> SUFFICES ASSUME IInv, [Next]_vars
               PROVE  [Promise!Next]_(Promise!absVars)
    OBVIOUS
  <2>1. CASE UNCHANGED vars
    BY <2>1 DEF vars, leaseVars, tokenVars, pageVars, clickVars, OpenedSessions, Promise!absVars, Promise!leaseVars,
                Promise!tokenVars, Promise!requestVars
  <2>2. ASSUME NEW c \in Names, RequestStep(c) PROVE [Promise!Next]_(Promise!absVars)
    <3>1. ASSUME End(c) PROVE Promise!End(c)
      BY <3>1, EndIsOver DEF End, leaseVars, tokenVars, pageVars, Promise!End, Promise!tokenVars
    <3>2. QED
      BY <2>2, <3>1, BeginKeepsPromise, GoingEndsAtMost, IssueKeepsPromise, AuthorizeKeepsPromise,
         ConsumeKeepsPromise, SendKeepsPromise DEF RequestStep, Promise!Next
  <2>3. QED
    BY <2>1, <2>2, SessioningKeepsPromise, TimeKeepsPromise DEF Next
<1>3. QED
  BY <1>1, <1>2, ClickInvariance, PTL DEF Spec, ImplementsInputGuards, Promise!Spec
===============================================================================
