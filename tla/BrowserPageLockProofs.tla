------------------------ MODULE BrowserPageLockProofs ------------------------
(***************************************************************************)
(* Proofs about the browser/page lock, for every set of browsers, pages and *)
(* callers.  Exclusion is not inductive by itself: whether a request may    *)
(* start is decided from the bookkeeping, so the invariant says that the    *)
(* bookkeeping is right (HoldsMatchRunning) and that the queue is an order  *)
(* of the waiting requests (QueueOrder).                                    *)
(***************************************************************************)
EXTENDS BrowserPageLock, TLAPS

Phases == {"idle", "queued", "running"}

(* The three facts, as a relation between bookkeeping `ab`, `ap`, `q`,      *)
(* queue order `ahead` and phases `ph`: the state has it between operations *)
(* and what is handed to Drain has it in the middle of one.                 *)
HoldsOf(ab, ap, q, ph, c) ==
  /\ ab[c] <=> \E r \in Requests : ph[r] = "running" /\ target[r] = c /\ scope[r] = WholeBrowser
  /\ \A p \in Pages : p \in ap[c] <=>
        \E r \in Requests : ph[r] = "running" /\ target[r] = c /\ scope[r] = p
  /\ \A r \in Requests : r \in q[c] <=> (ph[r] = "queued" /\ target[r] = c)

Exclusive(ph) ==
  \A r, s \in Requests :
    ph[r] = "running" /\ ph[s] = "running" /\ target[r] = target[s] /\ r # s
      => ~Conflict(r, s)

Ordered(ahead, ph) ==
  /\ \A r, s \in Requests : s \in ahead[r] =>
        ph[r] = "queued" /\ ph[s] = "queued" /\ target[s] = target[r] /\ s # r
  /\ \A r, s \in Requests :
        ph[r] = "queued" /\ ph[s] = "queued" /\ target[r] = target[s] /\ r # s
          => (r \in ahead[s] <=> s \notin ahead[r])

Good(ab, ap, q, ahead, ph) ==
  /\ ab \in [Browsers -> BOOLEAN]
  /\ ap \in [Browsers -> SUBSET Pages]
  /\ q \in [Browsers -> SUBSET Requests]
  /\ ahead \in [Requests -> SUBSET Requests]
  /\ ph \in [Requests -> Phases]
  /\ \A c \in Browsers : HoldsOf(ab, ap, q, ph, c)
  /\ Exclusive(ph)
  /\ Ordered(ahead, ph)

(* The bookkeeping after a drain of browser `b` that starts `S`.            *)
BrowserAfter(ab, b, S) == [ab EXCEPT ![b] = ab[b] \/ \E r \in S : scope[r] = WholeBrowser]
PagesAfter(ap, b, S) == [ap EXCEPT ![b] = ap[b] \cup ({scope[r] : r \in S} \ {WholeBrowser})]
QueueAfter(q, b, S) == [q EXCEPT ![b] = q[b] \ S]
OrderAfter(ahead, S) == [r \in Requests |-> IF r \in S THEN {} ELSE ahead[r] \ S]
PhaseAfter(ph, S) == [r \in Requests |-> IF r \in S THEN "running" ELSE ph[r]]

IInv ==
  /\ target \in [Requests -> Browsers]
  /\ scope \in [Requests -> Scopes]
  /\ states \in SUBSET Browsers
  /\ \A b \in Browsers :
        b \in states <=> \E r \in Requests : phase[r] # "idle" /\ target[r] = b
  /\ Good(activeBrowser, activePages, queue, before, phase)

-----------------------------------------------------------------------------
(* Drain starts from good bookkeeping and leaves good bookkeeping.          *)
LEMMA DrainKeepsGood ==
  ASSUME target \in [Requests -> Browsers],
         scope \in [Requests -> Scopes],
         NEW b \in Browsers,
         NEW ab, NEW ap, NEW q, NEW ahead, NEW ph,
         Good(ab, ap, q, ahead, ph),
         NEW started, started = Startable(b, ab, ap, q, ahead)
  PROVE  Good(BrowserAfter(ab, b, started), PagesAfter(ap, b, started),
              QueueAfter(q, b, started), OrderAfter(ahead, started),
              PhaseAfter(ph, started))
<1> DEFINE ab1 == BrowserAfter(ab, b, started)
           ap1 == PagesAfter(ap, b, started)
           q1 == QueueAfter(q, b, started)
           ahead1 == OrderAfter(ahead, started)
           ph1 == PhaseAfter(ph, started)
<1> USE DEF BrowserAfter, PagesAfter, QueueAfter, OrderAfter, PhaseAfter
<1>1. \A r \in started :
        /\ r \in Requests
        /\ ph[r] = "queued"
        /\ target[r] = b
        /\ ~ab[b]
        /\ scope[r] = WholeBrowser => ahead[r] = {} /\ ap[b] = {}
        /\ scope[r] # WholeBrowser =>
             /\ scope[r] \in Pages
             /\ scope[r] \notin ap[b]
             /\ \A s \in ahead[r] : scope[s] \notin {WholeBrowser, scope[r]}
  BY DEF Startable, Good, HoldsOf, Scopes
<1>2. /\ ab1 \in [Browsers -> BOOLEAN]
      /\ ap1 \in [Browsers -> SUBSET Pages]
      /\ q1 \in [Browsers -> SUBSET Requests]
      /\ ahead1 \in [Requests -> SUBSET Requests]
      /\ ph1 \in [Requests -> Phases]
  <2>1. ab1 \in [Browsers -> BOOLEAN]
    BY DEF Good
  <2>2. ap1 \in [Browsers -> SUBSET Pages]
    BY <1>1 DEF Good, Scopes
  <2>3. q1 \in [Browsers -> SUBSET Requests]
    BY DEF Good
  <2>4. ahead1 \in [Requests -> SUBSET Requests]
    BY DEF Good
  <2>5. ph1 \in [Requests -> Phases]
    BY DEF Good, Phases
  <2> QED BY <2>1, <2>2, <2>3, <2>4, <2>5
<1>3. ASSUME NEW c \in Browsers
      PROVE  HoldsOf(ab1, ap1, q1, ph1, c)
  <2>1. CASE c # b
    <3>1. ab1[c] = ab[c] /\ ap1[c] = ap[c] /\ q1[c] = q[c]
      BY <2>1 DEF Good
    <3>2. \A r \in Requests : target[r] = c => ph1[r] = ph[r]
      BY <1>1, <2>1
    <3>3. HoldsOf(ab, ap, q, ph, c)
      BY DEF Good
    <3> QED BY <3>1, <3>2, <3>3 DEF HoldsOf
  <2>2. CASE c = b
    <3>0. HoldsOf(ab, ap, q, ph, b)
      BY DEF Good
    <3>1. ab1[b] <=> (ab[b] \/ \E r \in started : scope[r] = WholeBrowser)
      BY DEF Good
    <3>2. ap1[b] = ap[b] \cup ({scope[r] : r \in started} \ {WholeBrowser})
      BY DEF Good
    <3>3. q1[b] = q[b] \ started
      BY DEF Good
    <3>4. \A r \in Requests : ph1[r] = IF r \in started THEN "running" ELSE ph[r]
      OBVIOUS
    <3> HIDE DEF ab1, ap1, q1, ph1
    <3>5. ab1[b] <=> \E r \in Requests :
            ph1[r] = "running" /\ target[r] = b /\ scope[r] = WholeBrowser
      BY <1>1, <3>0, <3>1, <3>4 DEF HoldsOf
    <3>6. \A p \in Pages : p \in ap1[b] <=>
            \E r \in Requests : ph1[r] = "running" /\ target[r] = b /\ scope[r] = p
      BY <1>1, <3>0, <3>2, <3>4, WholeBrowserAssumption DEF HoldsOf
    <3>7. \A r \in Requests : r \in q1[b] <=> (ph1[r] = "queued" /\ target[r] = b)
      BY <1>1, <3>0, <3>3, <3>4 DEF HoldsOf
    <3> QED BY <2>2, <3>5, <3>6, <3>7 DEF HoldsOf
  <2> QED BY <2>1, <2>2
<1>4. Exclusive(ph1)
  <2> SUFFICES ASSUME NEW r \in Requests, NEW s \in Requests,
                      ph1[r] = "running", ph1[s] = "running",
                      target[r] = target[s], r # s
               PROVE  ~Conflict(r, s)
    BY DEF Exclusive
  <2>1. CASE r \notin started /\ s \notin started
    BY <2>1 DEF Good, Exclusive
  <2>2. ASSUME NEW x \in started, NEW y \in Requests, y \notin started,
               ph[y] = "running", target[y] = b
        PROVE  ~Conflict(x, y) /\ ~Conflict(y, x)
    BY <1>1, <2>2 DEF Good, HoldsOf, Conflict, Scopes
  <2>3. CASE r \in started /\ s \in started
    BY <1>1, <2>3 DEF Good, Ordered, Conflict
  <2> QED BY <1>1, <2>1, <2>2, <2>3
<1>5. Ordered(ahead1, ph1)
  BY <1>1 DEF Good, Ordered
<1> QED BY <1>2, <1>3, <1>4, <1>5 DEF Good

-----------------------------------------------------------------------------
(* What Enqueue hands to Drain is good: the newcomer is queued behind       *)
(* everybody that waits on its browser.                                     *)
LEMMA EnqueueHandsOverGood ==
  ASSUME IInv, NEW r \in Requests, phase[r] = "idle"
  PROVE  Good(activeBrowser, activePages,
              [queue EXCEPT ![target[r]] = queue[target[r]] \cup {r}],
              [before EXCEPT ![r] = queue[target[r]]],
              [phase EXCEPT ![r] = "queued"])
<1> DEFINE b == target[r]
           q == [queue EXCEPT ![b] = queue[b] \cup {r}]
           ahead == [before EXCEPT ![r] = queue[b]]
           ph == [phase EXCEPT ![r] = "queued"]
<1>1. b \in Browsers
  BY DEF IInv
<1>2. /\ q \in [Browsers -> SUBSET Requests]
      /\ ahead \in [Requests -> SUBSET Requests]
      /\ ph \in [Requests -> Phases]
  BY <1>1 DEF IInv, Good, Phases
<1>3. ASSUME NEW c \in Browsers
      PROVE  HoldsOf(activeBrowser, activePages, q, ph, c)
  <2>1. HoldsOf(activeBrowser, activePages, queue, phase, c)
    BY DEF IInv, Good
  <2>2. \A x \in Requests : ph[x] = IF x = r THEN "queued" ELSE phase[x]
    BY DEF IInv, Good
  <2>3. \A x \in Requests : x \in q[c] <=> (x \in queue[c] \/ (x = r /\ c = b))
    BY <1>1 DEF IInv, Good
  <2> QED BY <2>1, <2>2, <2>3 DEF HoldsOf
<1>4. Exclusive(ph)
  BY DEF IInv, Good, Exclusive
<1>5. Ordered(ahead, ph)
  <2>1. \A x \in Requests : x \in queue[b] <=> (phase[x] = "queued" /\ target[x] = b)
    BY <1>1 DEF IInv, Good, HoldsOf
  <2>2. \A x \in Requests : /\ ph[x] = IF x = r THEN "queued" ELSE phase[x]
                            /\ ahead[x] = IF x = r THEN queue[b] ELSE before[x]
    BY DEF IInv, Good
  <2>3. Ordered(before, phase)
    BY DEF IInv, Good
  <2> QED BY <2>1, <2>2, <2>3 DEF Ordered
<1> QED BY <1>2, <1>3, <1>4, <1>5 DEF IInv, Good

(* What Finish hands to Drain is good: the hold of the finished request,    *)
(* and only that, is given back.                                            *)
LEMMA FinishHandsOverGood ==
  ASSUME IInv, NEW r \in Requests, phase[r] = "running"
  PROVE  Good([activeBrowser EXCEPT ![target[r]] =
                 activeBrowser[target[r]] /\ scope[r] # WholeBrowser],
              [activePages EXCEPT ![target[r]] = activePages[target[r]] \ {scope[r]}],
              queue, before, [phase EXCEPT ![r] = "idle"])
<1> DEFINE b == target[r]
           ab == [activeBrowser EXCEPT ![b] = activeBrowser[b] /\ scope[r] # WholeBrowser]
           ap == [activePages EXCEPT ![b] = activePages[b] \ {scope[r]}]
           ph == [phase EXCEPT ![r] = "idle"]
<1>1. b \in Browsers /\ scope[r] \in Scopes
  BY DEF IInv
<1>2. /\ ab \in [Browsers -> BOOLEAN]
      /\ ap \in [Browsers -> SUBSET Pages]
      /\ ph \in [Requests -> Phases]
  BY <1>1 DEF IInv, Good, Phases
<1>3. ASSUME NEW c \in Browsers
      PROVE  HoldsOf(ab, ap, queue, ph, c)
  <2>1. HoldsOf(activeBrowser, activePages, queue, phase, c)
    BY DEF IInv, Good
  <2>2. \A x \in Requests : ph[x] = IF x = r THEN "idle" ELSE phase[x]
    BY DEF IInv, Good
  <2>3. Exclusive(phase)
    BY DEF IInv, Good
  <2>4. CASE c # b
    BY <1>1, <2>1, <2>2, <2>4 DEF HoldsOf, IInv, Good
  <2>5. CASE c = b
    <3>1. ab[b] <=> (activeBrowser[b] /\ scope[r] # WholeBrowser)
      BY <1>1 DEF IInv, Good
    <3>2. ap[b] = activePages[b] \ {scope[r]}
      BY <1>1 DEF IInv, Good
    <3> HIDE DEF ab, ap, ph
    <3>3. ab[b] <=> \E x \in Requests :
            ph[x] = "running" /\ target[x] = b /\ scope[x] = WholeBrowser
      BY <2>1, <2>2, <2>3, <2>5, <3>1 DEF HoldsOf, Exclusive, Conflict
    <3>4. \A p \in Pages : p \in ap[b] <=>
            \E x \in Requests : ph[x] = "running" /\ target[x] = b /\ scope[x] = p
      BY <2>1, <2>2, <2>3, <2>5, <3>2 DEF HoldsOf, Exclusive, Conflict
    <3>5. \A x \in Requests : x \in queue[b] <=> (ph[x] = "queued" /\ target[x] = b)
      BY <2>1, <2>2, <2>5 DEF HoldsOf
    <3> QED BY <2>5, <3>3, <3>4, <3>5 DEF HoldsOf
  <2> QED BY <2>4, <2>5
<1>4. Exclusive(ph)
  BY DEF IInv, Good, Exclusive
<1>5. Ordered(before, ph)
  BY DEF IInv, Good, Ordered
<1> QED BY <1>2, <1>3, <1>4, <1>5 DEF IInv, Good

-----------------------------------------------------------------------------
(* Either operation, seen as one drain: the bookkeeping it hands to drain   *)
(* and the requests it starts.  Dropping an unused record is a drain that   *)
(* finds nothing to start.                                                  *)
MidBrowser(r) ==
  IF phase[r] = "running"
  THEN [activeBrowser EXCEPT ![target[r]] = activeBrowser[target[r]] /\ scope[r] # WholeBrowser]
  ELSE activeBrowser
MidPages(r) ==
  IF phase[r] = "running"
  THEN [activePages EXCEPT ![target[r]] = activePages[target[r]] \ {scope[r]}]
  ELSE activePages
MidQueue(r) ==
  IF phase[r] = "running"
  THEN queue
  ELSE [queue EXCEPT ![target[r]] = queue[target[r]] \cup {r}]
MidOrder(r) ==
  IF phase[r] = "running" THEN before ELSE [before EXCEPT ![r] = queue[target[r]]]
MidPhase(r) ==
  [phase EXCEPT ![r] = IF phase[r] = "running" THEN "idle" ELSE "queued"]
Started(r) ==
  Startable(target[r], MidBrowser(r), MidPages(r), MidQueue(r), MidOrder(r))

Operation(r) == Enqueue(r) \/ Finish(r)

LEMMA MidGood ==
  ASSUME IInv, NEW r \in Requests, Operation(r)
  PROVE  Good(MidBrowser(r), MidPages(r), MidQueue(r), MidOrder(r), MidPhase(r))
<1>1. CASE phase[r] = "idle"
  BY <1>1, EnqueueHandsOverGood
    DEF MidBrowser, MidPages, MidQueue, MidOrder, MidPhase
<1>2. CASE phase[r] = "running"
  BY <1>2, FinishHandsOverGood
    DEF MidBrowser, MidPages, MidQueue, MidOrder, MidPhase
<1> QED BY <1>1, <1>2 DEF Operation, Enqueue, Finish

LEMMA OperationDrains ==
  ASSUME IInv, NEW r \in Requests, Operation(r)
  PROVE  /\ activeBrowser' = BrowserAfter(MidBrowser(r), target[r], Started(r))
         /\ activePages' = PagesAfter(MidPages(r), target[r], Started(r))
         /\ queue' = QueueAfter(MidQueue(r), target[r], Started(r))
         /\ before' = OrderAfter(MidOrder(r), Started(r))
         /\ phase' = PhaseAfter(MidPhase(r), Started(r))
         /\ target' = target
         /\ scope' = scope
<1> DEFINE b == target[r]
<1> USE DEF BrowserAfter, PagesAfter, QueueAfter, OrderAfter, PhaseAfter
<1>1. b \in Browsers
  BY DEF IInv
<1>2. CASE Enqueue(r)
  <2>1. phase[r] = "idle"
    BY <1>2 DEF Enqueue
  <2> QED
    BY <1>2, <2>1
      DEF Enqueue, Drain, Started, MidBrowser, MidPages, MidQueue, MidOrder, MidPhase
<1>3. CASE Finish(r)
  <2>1. phase[r] = "running"
    BY <1>3 DEF Finish
  <2>2. CASE ~(~MidBrowser(r)[b] /\ MidPages(r)[b] = {} /\ queue[b] = {})
    BY <1>3, <2>1, <2>2
      DEF Finish, Drain, Started, MidBrowser, MidPages, MidQueue, MidOrder, MidPhase
  <2>3. CASE ~MidBrowser(r)[b] /\ MidPages(r)[b] = {} /\ queue[b] = {}
    <3>1. /\ activeBrowser' = [activeBrowser EXCEPT ![b] = FALSE]
          /\ activePages' = [activePages EXCEPT ![b] = {}]
          /\ queue' = [queue EXCEPT ![b] = {}]
          /\ before' = before
          /\ phase' = MidPhase(r)
          /\ target' = target /\ scope' = scope
      BY <1>3, <2>1, <2>3 DEF Finish, MidBrowser, MidPages, MidPhase
    <3>2. MidQueue(r) = queue /\ MidOrder(r) = before
      BY <2>1 DEF MidQueue, MidOrder
    <3>3. Started(r) = {}
      BY <2>3, <3>2 DEF Started, Startable
    <3>4. activeBrowser' = BrowserAfter(MidBrowser(r), b, {})
      <4>1. activeBrowser' = MidBrowser(r)
        BY <1>1, <2>1, <2>3, <3>1 DEF MidBrowser, IInv, Good
      <4>2. MidBrowser(r)[b] = FALSE /\ MidBrowser(r) \in [Browsers -> BOOLEAN]
        BY <1>1, <2>3, MidGood DEF Good
      <4> HIDE DEF b
      <4> QED BY <1>1, <4>1, <4>2
    <3>5. activePages' = PagesAfter(MidPages(r), b, {})
      <4>1. activePages' = MidPages(r)
        BY <1>1, <2>1, <2>3, <3>1 DEF MidPages, IInv, Good
      <4>2. MidPages(r)[b] = {} /\ MidPages(r) \in [Browsers -> SUBSET Pages]
        BY <1>1, <2>3, MidGood DEF Good
      <4> QED BY <1>1, <4>1, <4>2
    <3>6. queue' = QueueAfter(MidQueue(r), b, {})
      BY <1>1, <2>3, <3>1, <3>2 DEF IInv, Good
    <3>7. before' = OrderAfter(MidOrder(r), {}) /\ phase' = PhaseAfter(MidPhase(r), {})
      BY <3>1, <3>2, MidGood DEF Good
    <3> QED BY <3>1, <3>3, <3>4, <3>5, <3>6, <3>7
  <2> QED BY <2>2, <2>3
<1> QED BY <1>2, <1>3 DEF Operation

(* Only waiting requests of the browser at hand are started.                *)
LEMMA StartedWereQueued ==
  ASSUME IInv, NEW r \in Requests, Operation(r)
  PROVE  \A x \in Started(r) :
           x \in Requests /\ MidPhase(r)[x] = "queued" /\ target[x] = target[r]
<1>1. target[r] \in Browsers
  BY DEF IInv
<1>2. Good(MidBrowser(r), MidPages(r), MidQueue(r), MidOrder(r), MidPhase(r))
  BY MidGood
<1>3. \A x \in Started(r) : x \in MidQueue(r)[target[r]]
  BY DEF Started, Startable
<1> QED BY <1>1, <1>2, <1>3 DEF Good, HoldsOf

(* Afterwards exactly the requests that were active still are, except that  *)
(* the one that operated has come or gone.                                  *)
LEMMA ActiveAfterOperation ==
  ASSUME IInv, NEW r \in Requests, Operation(r)
  PROVE  \A x \in Requests : phase'[x] # "idle" <=>
           (IF x = r THEN phase[r] # "running" ELSE phase[x] # "idle")
<1>1. \A x \in Requests : phase'[x] # "idle" <=> MidPhase(r)[x] # "idle"
  BY OperationDrains, StartedWereQueued DEF PhaseAfter
<1>2. \A x \in Requests : MidPhase(r)[x] # "idle" <=>
         (IF x = r THEN phase[r] # "running" ELSE phase[x] # "idle")
  BY DEF MidPhase, IInv, Good
<1> QED BY <1>1, <1>2

(* An operation preserves the invariant.                                    *)
LEMMA OperationPreserves ==
  ASSUME IInv, NEW r \in Requests, Operation(r)
  PROVE  IInv'
<1>1. target[r] \in Browsers
  BY DEF IInv
<1>2. Good(activeBrowser', activePages', queue', before', phase')
  BY <1>1, MidGood, OperationDrains, DrainKeepsGood DEF IInv, Started
<1>3. Good(activeBrowser, activePages, queue, before, phase)'
  BY <1>2, OperationDrains DEF Good, HoldsOf, Exclusive, Ordered, Conflict
<1>4. \A x \in Requests : phase'[x] # "idle" <=> MidPhase(r)[x] # "idle"
  BY OperationDrains, StartedWereQueued DEF PhaseAfter
<1>5. \A x \in Requests : phase'[x] # "idle" <=>
         (IF x = r THEN phase[r] # "running" ELSE phase[x] # "idle")
  BY ActiveAfterOperation
<1>6. ASSUME NEW c \in Browsers
      PROVE  c \in states' <=> \E x \in Requests : phase'[x] # "idle" /\ target[x] = c
  <2>1. CASE Enqueue(r)
    BY <1>5, <2>1 DEF Enqueue, IInv
  <2>2. CASE Finish(r)
    <3>1. phase[r] = "running" /\ target[r] \in states
      BY <1>1, <2>2 DEF Finish, IInv
    <3>2. states' = states \ {target[r]} \/ states' = states
      BY <2>2 DEF Finish
    <3>3. CASE c # target[r]
      BY <1>5, <3>2, <3>3 DEF IInv
    <3>4. CASE c = target[r]
      <4>1. HoldsOf(MidBrowser(r), MidPages(r), MidQueue(r), MidPhase(r), c)
        BY MidGood DEF Good
      <4>2. /\ MidBrowser(r)[c] <=> (activeBrowser[c] /\ scope[r] # WholeBrowser)
            /\ MidPages(r)[c] = activePages[c] \ {scope[r]}
            /\ MidQueue(r)[c] = queue[c]
            /\ \A x \in Requests : MidPhase(r)[x] \in Phases
        BY <3>1, <3>4, MidGood DEF MidBrowser, MidPages, MidQueue, IInv, Good
      <4>3. MidPages(r)[c] \in SUBSET Pages /\ MidQueue(r)[c] \in SUBSET Requests
        BY MidGood DEF Good
      <4>4. (~MidBrowser(r)[c] /\ MidPages(r)[c] = {} /\ MidQueue(r)[c] = {})
              <=> \A x \in Requests : target[x] = c => MidPhase(r)[x] = "idle"
        BY <4>1, <4>2, <4>3 DEF HoldsOf, IInv, Scopes, Phases
      <4>5. c \notin states' <=>
              (~MidBrowser(r)[c] /\ MidPages(r)[c] = {} /\ MidQueue(r)[c] = {})
        BY <2>2, <3>1, <3>4 DEF Finish, MidBrowser, MidPages, MidQueue
      <4> QED BY <1>4, <4>4, <4>5
    <3> QED BY <3>3, <3>4
  <2> QED BY <2>1, <2>2 DEF Operation
<1>7. states' \in SUBSET Browsers
  BY <1>1 DEF Operation, Enqueue, Finish, IInv
<1> QED BY <1>3, <1>6, <1>7, OperationDrains DEF IInv

(* The invariant holds in every state of every execution.                   *)
THEOREM Invariance == Spec => []IInv
<1>1. Init => IInv
  <2> SUFFICES ASSUME Init PROVE IInv
    OBVIOUS
  <2>1. Good(activeBrowser, activePages, queue, before, phase)
    BY DEF Init, Good, HoldsOf, Exclusive, Ordered, Phases
  <2> QED BY <2>1 DEF Init, IInv
<1>2. IInv /\ [Next]_vars => IInv'
  <2> SUFFICES ASSUME IInv, [Next]_vars PROVE IInv'
    OBVIOUS
  <2>1. ASSUME NEW r \in Requests, Operation(r) PROVE IInv'
    BY <2>1, OperationPreserves
  <2>2. CASE UNCHANGED vars
    BY <2>2 DEF vars, lockVars, IInv, Good, HoldsOf, Exclusive, Ordered, Conflict
  <2> QED BY <2>1, <2>2 DEF Next, Operation
<1> QED BY <1>1, <1>2, PTL DEF Spec

-----------------------------------------------------------------------------
(* TypeOK: every variable keeps its type.                                   *)
THEOREM TypeCorrect == Spec => []TypeOK
<1>1. IInv => TypeOK
  BY DEF IInv, Good, TypeOK, Phases
<1> QED BY <1>1, Invariance, PTL

(* MutualExclusion: a browser operation runs alone on its browser and a     *)
(* page serves one request at a time.                                       *)
THEOREM Exclusion == Spec => []MutualExclusion
<1>1. IInv => MutualExclusion
  BY DEF IInv, Good, Exclusive, MutualExclusion, Running
<1> QED BY <1>1, Invariance, PTL

(* HoldsMatchRunning: the holds are those of the running requests, and a    *)
(* record lives exactly as long as somebody runs or waits.                  *)
THEOREM Bookkeeping == Spec => []HoldsMatchRunning
<1>1. IInv => HoldsMatchRunning
  <2> SUFFICES ASSUME IInv, NEW b \in Browsers
               PROVE  /\ activeBrowser[b] <=> \E r \in Running(b) : scope[r] = WholeBrowser
                      /\ activePages[b] = {scope[r] : r \in Running(b)} \ {WholeBrowser}
                      /\ queue[b] = {r \in Requests : phase[r] = "queued" /\ target[r] = b}
                      /\ b \in states <=> (Running(b) # {} \/ queue[b] # {})
    BY DEF HoldsMatchRunning
  <2>1. HoldsOf(activeBrowser, activePages, queue, phase, b)
    BY DEF IInv, Good
  <2>2. activePages[b] \in SUBSET Pages /\ queue[b] \in SUBSET Requests
    BY DEF IInv, Good
  <2>3. activeBrowser[b] <=> \E r \in Running(b) : scope[r] = WholeBrowser
    BY <2>1 DEF HoldsOf, Running
  <2>4. activePages[b] = {scope[r] : r \in Running(b)} \ {WholeBrowser}
    BY <2>1, <2>2, WholeBrowserAssumption DEF HoldsOf, Running, IInv, Scopes
  <2>5. queue[b] = {r \in Requests : phase[r] = "queued" /\ target[r] = b}
    BY <2>1, <2>2 DEF HoldsOf
  <2>6. b \in states <=> (Running(b) # {} \/ queue[b] # {})
    BY <2>5 DEF IInv, Good, Running, Phases
  <2> QED BY <2>3, <2>4, <2>5, <2>6
<1> QED BY <1>1, Invariance, PTL

-----------------------------------------------------------------------------
(* The requests that a waiting one still has to wait for, when `ahead` is   *)
(* the queue order and `ph` says who runs.                                  *)
Opponents(x, ahead, ph) ==
  {s \in Requests :
    /\ s \in ahead[x] \/ (ph[s] = "running" /\ target[s] = target[x])
    /\ Conflict(x, s)}

(* Drain starts a waiting request iff nothing it conflicts with is ahead of *)
(* it or running.                                                           *)
LEMMA StartsIffUnopposed ==
  ASSUME target \in [Requests -> Browsers],
         scope \in [Requests -> Scopes],
         NEW b \in Browsers,
         NEW ab, NEW ap, NEW q, NEW ahead, NEW ph,
         Good(ab, ap, q, ahead, ph),
         NEW x \in Requests, x \in q[b]
  PROVE  x \in Startable(b, ab, ap, q, ahead) <=> Opponents(x, ahead, ph) = {}
<1>1. HoldsOf(ab, ap, q, ph, b) /\ target[x] = b
  BY DEF Good, HoldsOf
<1>2. ahead[x] \in SUBSET Requests /\ ap[b] \in SUBSET Pages /\ scope[x] \in Scopes
  BY DEF Good
<1>3. CASE scope[x] = WholeBrowser
  <2>1. x \in Startable(b, ab, ap, q, ahead) <=> (~ab[b] /\ ap[b] = {} /\ ahead[x] = {})
    BY <1>3 DEF Startable
  <2>2. (~ab[b] /\ ap[b] = {}) <=>
          \A s \in Requests : ~(ph[s] = "running" /\ target[s] = b)
    BY <1>1, <1>2 DEF HoldsOf, Scopes
  <2>3. Opponents(x, ahead, ph) = {} <=>
          \A s \in Requests : ~(s \in ahead[x] \/ (ph[s] = "running" /\ target[s] = b))
    BY <1>1, <1>3 DEF Opponents, Conflict
  <2> QED BY <1>2, <2>1, <2>2, <2>3
<1>4. CASE scope[x] # WholeBrowser
  <2>1. x \in Startable(b, ab, ap, q, ahead) <=>
          /\ ~ab[b]
          /\ scope[x] \notin ap[b]
          /\ \A s \in ahead[x] : scope[s] \notin {WholeBrowser, scope[x]}
    BY <1>4 DEF Startable
  <2>2. (~ab[b] /\ scope[x] \notin ap[b]) <=>
          \A s \in Requests : ph[s] = "running" /\ target[s] = b =>
            scope[s] \notin {WholeBrowser, scope[x]}
    BY <1>1, <1>2, <1>4 DEF HoldsOf, Scopes
  <2>3. Opponents(x, ahead, ph) = {} <=>
          \A s \in Requests : s \in ahead[x] \/ (ph[s] = "running" /\ target[s] = b) =>
            scope[s] \notin {WholeBrowser, scope[x]}
    BY <1>1, <1>4 DEF Opponents, Conflict
  <2> QED BY <1>2, <2>1, <2>2, <2>3
<1> QED BY <1>3, <1>4

(* Whoever is still waiting after a drain waits for the same requests as    *)
(* before: those that were ahead and now run are still there, and those     *)
(* behind it that were started do not conflict with it.                     *)
LEMMA DrainKeepsOpponents ==
  ASSUME target \in [Requests -> Browsers],
         scope \in [Requests -> Scopes],
         NEW b \in Browsers,
         NEW ab, NEW ap, NEW q, NEW ahead, NEW ph,
         Good(ab, ap, q, ahead, ph),
         NEW started, started = Startable(b, ab, ap, q, ahead),
         NEW x \in Requests, x \notin started, ph[x] = "queued"
  PROVE  Opponents(x, OrderAfter(ahead, started), PhaseAfter(ph, started))
           = Opponents(x, ahead, ph)
<1>1. \A s \in started : s \in Requests /\ s \in q[b] /\ ph[s] = "queued" /\ target[s] = b
  BY DEF Startable, Good, HoldsOf
<1>2. \A s \in started : Opponents(s, ahead, ph) = {}
  BY <1>1, StartsIffUnopposed
<1>3. \A s \in started : target[x] = b => s \in ahead[x] \/ ~Conflict(x, s)
  <2> SUFFICES ASSUME NEW s \in started, target[x] = b, s \notin ahead[x]
               PROVE  ~Conflict(x, s)
    OBVIOUS
  <2>1. x \in ahead[s]
    BY <1>1 DEF Good, Ordered
  <2> QED BY <1>1, <1>2, <2>1 DEF Opponents, Conflict
<1>4. \A s \in started : s \in ahead[x] => target[x] = b
  BY <1>1 DEF Good, Ordered
<1>5. OrderAfter(ahead, started)[x] = ahead[x] \ started
  BY DEF OrderAfter
<1>6. \A s \in Requests : PhaseAfter(ph, started)[s] =
                            IF s \in started THEN "running" ELSE ph[s]
  BY DEF PhaseAfter
<1> QED BY <1>1, <1>3, <1>4, <1>5, <1>6 DEF Opponents

-----------------------------------------------------------------------------
(* Whom a waiting request still waits for, as the state has it.             *)
Awaited(x) == IF phase[x] = "queued" THEN Opponents(x, before, phase) ELSE {}

(* Coming, a request waits for its active rivals; going, it stops being     *)
(* waited for; nothing else changes for anybody.                            *)
LEMMA AwaitedAfterOperation ==
  ASSUME IInv, NEW r \in Requests, Operation(r), NEW x \in Requests
  PROVE  Awaited(x)' =
           IF phase[r] = "running" THEN Awaited(x) \ {r}
           ELSE IF x # r THEN Awaited(x)
           ELSE {s \in Requests : /\ phase[s] # "idle"
                                  /\ target[s] = target[r]
                                  /\ Conflict(r, s)}
<1> DEFINE mid == IF MidPhase(r)[x] = "queued"
                  THEN Opponents(x, MidOrder(r), MidPhase(r)) ELSE {}
<1>1. target[r] \in Browsers
  BY DEF IInv
<1>2. Good(MidBrowser(r), MidPages(r), MidQueue(r), MidOrder(r), MidPhase(r))
  BY MidGood
<1>3. /\ before' = OrderAfter(MidOrder(r), Started(r))
      /\ phase' = PhaseAfter(MidPhase(r), Started(r))
      /\ target' = target
      /\ scope' = scope
  BY OperationDrains
<1>4. Awaited(x)' = mid
  <2>1. Awaited(x)' = IF phase'[x] = "queued" THEN Opponents(x, before', phase') ELSE {}
    BY <1>3 DEF Awaited, Opponents, Conflict
  <2>2. CASE x \in Started(r)
    <3>1. x \in MidQueue(r)[target[r]] /\ MidPhase(r)[x] = "queued"
      BY <2>2, StartedWereQueued DEF Started, Startable
    <3>2. Opponents(x, MidOrder(r), MidPhase(r)) = {}
      BY <1>1, <1>2, <2>2, <3>1, StartsIffUnopposed DEF IInv, Started
    <3>3. phase'[x] = "running"
      BY <1>3, <2>2 DEF PhaseAfter
    <3> QED BY <2>1, <3>2, <3>3
  <2>3. CASE x \notin Started(r)
    <3>1. phase'[x] = MidPhase(r)[x]
      BY <1>3, <2>3 DEF PhaseAfter
    <3>2. MidPhase(r)[x] = "queued" =>
            Opponents(x, before', phase') = Opponents(x, MidOrder(r), MidPhase(r))
      BY <1>1, <1>2, <1>3, <2>3, DrainKeepsOpponents DEF IInv, Started
    <3> QED BY <2>1, <3>1, <3>2
  <2> QED BY <2>2, <2>3
<1>5. CASE phase[r] = "running"
  <2>1. /\ MidOrder(r) = before
        /\ \A s \in Requests : MidPhase(r)[s] = IF s = r THEN "idle" ELSE phase[s]
    BY <1>5 DEF MidOrder, MidPhase, IInv, Good
  <2>2. r \notin before[x]
    BY <1>5 DEF IInv, Good, Ordered
  <2> QED BY <1>4, <1>5, <2>1, <2>2 DEF Awaited, Opponents
<1>6. CASE phase[r] # "running"
  <2>1. phase[r] = "idle"
    BY <1>6 DEF Operation, Enqueue, Finish
  <2>2. /\ \A s \in Requests : MidPhase(r)[s] = IF s = r THEN "queued" ELSE phase[s]
        /\ MidOrder(r)[x] = IF x = r THEN queue[target[r]] ELSE before[x]
    BY <2>1 DEF MidOrder, MidPhase, IInv, Good
  <2>3. CASE x # r
    BY <1>4, <1>6, <2>1, <2>2, <2>3 DEF Awaited, Opponents
  <2>4. CASE x = r
    <3>1. \A s \in Requests : s \in queue[target[r]] <=>
                               (phase[s] = "queued" /\ target[s] = target[r])
      BY <1>1 DEF IInv, Good, HoldsOf
    <3>2. \A s \in Requests : phase[s] \in Phases
      BY DEF IInv, Good
    <3>3. mid = {s \in Requests : /\ s \in queue[target[r]] \/
                                       (MidPhase(r)[s] = "running" /\ target[s] = target[r])
                                  /\ Conflict(r, s)}
      BY <2>2, <2>4 DEF Opponents
    <3> HIDE DEF mid
    <3> QED BY <1>4, <1>6, <2>1, <2>2, <2>4, <3>1, <3>2, <3>3 DEF Phases
  <2> QED BY <2>3, <2>4
<1> QED BY <1>5, <1>6

(* What the state says of a waiting request is true: it waits for somebody. *)
LEMMA WaitersAreOpposed ==
  ASSUME IInv, NobodyWaitsInVain, NEW r \in Requests, Operation(r)
  PROVE  NobodyWaitsInVain'
<1> SUFFICES ASSUME NEW x \in Requests, phase'[x] = "queued"
             PROVE  Opponents(x, before', phase') # {}
  BY OperationDrains DEF NobodyWaitsInVain, Opponents, Running, Conflict
<1>1. target[r] \in Browsers
  BY DEF IInv
<1>2. Good(MidBrowser(r), MidPages(r), MidQueue(r), MidOrder(r), MidPhase(r))
  BY MidGood
<1>3. x \notin Started(r) /\ MidPhase(r)[x] = "queued"
  BY OperationDrains DEF PhaseAfter
<1>4. Opponents(x, before', phase') = Opponents(x, MidOrder(r), MidPhase(r))
  BY <1>1, <1>2, <1>3, OperationDrains, DrainKeepsOpponents DEF IInv, Started
<1>5. CASE target[x] = target[r]
  <2>1. x \in MidQueue(r)[target[r]]
    BY <1>1, <1>2, <1>3, <1>5 DEF Good, HoldsOf
  <2> QED BY <1>1, <1>2, <1>3, <1>4, <2>1, StartsIffUnopposed DEF IInv, Started
<1>6. CASE target[x] # target[r]
  <2>1. phase[x] = "queued" /\ MidOrder(r)[x] = before[x]
    BY <1>3, <1>6 DEF MidPhase, MidOrder, IInv, Good
  <2>2. PICK s \in before[x] \cup Running(target[x]) : Conflict(x, s)
    BY <2>1 DEF NobodyWaitsInVain
  <2>3. s \in Requests /\ s # r
    BY <1>6, <2>2 DEF IInv, Good, Ordered, Running
  <2>4. MidPhase(r)[s] = phase[s]
    BY <2>3 DEF MidPhase, IInv, Good
  <2> QED BY <1>4, <2>1, <2>2, <2>3, <2>4 DEF Opponents, Running
<1> QED BY <1>5, <1>6

(* NobodyWaitsInVain: no wake-up is ever lost.                              *)
THEOREM NoLostWakeup == Spec => []NobodyWaitsInVain
<1>1. Init => NobodyWaitsInVain
  BY DEF Init, NobodyWaitsInVain
<1>2. IInv /\ NobodyWaitsInVain /\ [Next]_vars => NobodyWaitsInVain'
  <2> SUFFICES ASSUME IInv, NobodyWaitsInVain, [Next]_vars PROVE NobodyWaitsInVain'
    OBVIOUS
  <2>1. ASSUME NEW r \in Requests, Operation(r) PROVE NobodyWaitsInVain'
    BY <2>1, WaitersAreOpposed
  <2>2. CASE UNCHANGED vars
    BY <2>2 DEF vars, lockVars, NobodyWaitsInVain, Running, Conflict
  <2> QED BY <2>1, <2>2 DEF Next, Operation
<1> QED BY <1>1, <1>2, Invariance, PTL DEF Spec

(* NoOvertaking: nobody starts past an earlier waiting request that it      *)
(* conflicts with.                                                          *)
THEOREM Fifo == Spec => NoOvertaking
<1>1. IInv /\ [Next]_vars => [StartsInTurn]_vars
  <2> SUFFICES ASSUME IInv, NEW r \in Requests, Operation(r),
                      NEW x \in Requests, phase[x] # "running", phase'[x] = "running",
                      NEW s \in before[x]
               PROVE  ~Conflict(x, s)
    BY DEF Next, Operation, StartsInTurn
  <2>1. target[r] \in Browsers
    BY DEF IInv
  <2>2. phase[x] = "queued" /\ s \in Requests
    BY DEF IInv, Good, Ordered
  <2>3. MidPhase(r)[x] # "running"
    BY DEF MidPhase, IInv, Good
  <2>4. x \in Started(r)
    BY <2>3, OperationDrains DEF PhaseAfter
  <2>5. Opponents(x, MidOrder(r), MidPhase(r)) = {}
    BY <2>1, <2>4, MidGood, StartsIffUnopposed DEF IInv, Started, Startable
  <2>6. s \in MidOrder(r)[x]
    BY <2>2 DEF MidOrder, Operation, Enqueue, Finish, IInv, Good
  <2> QED BY <2>2, <2>5, <2>6 DEF Opponents
<1>2. Spec => [][StartsInTurn]_vars
  BY <1>1, Invariance, PTL DEF Spec
<1> QED BY <1>2, PTL DEF NoOvertaking

-----------------------------------------------------------------------------
(* ImplementsExclusiveAccess: seen as who is active and who waits for whom, *)
(* every step of the lock is a step of its promise.                         *)
THEOREM Refinement == Spec => ImplementsExclusiveAccess
<1>1. Init => Promise!Init
  BY DEF Init, Promise!Init, Scopes
<1>2. IInv /\ [Next]_vars => [Promise!Next]_(Promise!absVars)
  <2> SUFFICES ASSUME IInv, [Next]_vars
               PROVE  [Promise!Next]_(Promise!absVars)
    OBVIOUS
  <2> DEFINE active == {x \in Requests : phase[x] # "idle"}
             waits == [x \in Requests |->
                         IF phase[x] = "queued"
                         THEN {s \in before[x] \cup Running(target[x]) : Conflict(x, s)}
                         ELSE {}]
  <2>1. CASE UNCHANGED vars
    BY <2>1 DEF vars, lockVars, Promise!absVars, Running, Conflict
  <2>2. ASSUME NEW r \in Requests, Operation(r)
        PROVE  Promise!Next
    <3>1. waits = [x \in Requests |-> Awaited(x)]
      BY DEF Awaited, Opponents, Running, IInv, Good
    <3>2. IInv'
      BY <2>2, OperationPreserves
    <3>3. waits' = [x \in Requests |-> Awaited(x)']
      BY <3>2 DEF Awaited, Opponents, Running, IInv, Good
    <3>4. target' = target /\ scope' = scope
      BY <2>2, OperationDrains
    <3>5. \A x \in Requests : phase'[x] # "idle" <=>
            (IF x = r THEN phase[r] # "running" ELSE phase[x] # "idle")
      BY <2>2, ActiveAfterOperation
    <3>6. \A x \in Requests : Awaited(x)' =
            IF phase[r] = "running" THEN Awaited(x) \ {r}
            ELSE IF x # r THEN Awaited(x)
            ELSE {s \in Requests : /\ phase[s] # "idle"
                                   /\ target[s] = target[r]
                                   /\ Conflict(r, s)}
      BY <2>2, AwaitedAfterOperation
    <3>7. CASE phase[r] = "running"
      <4>1. active' = active \ {r}
        BY <3>5, <3>7
      <4>2. waits' = [x \in Requests |-> waits[x] \ {r}]
        BY <3>1, <3>3, <3>6, <3>7
      <4>3. r \in active /\ waits[r] = {}
        BY <3>7
      <4> HIDE DEF waits, active
      <4>4. Promise!Release(r)
        BY <3>4, <4>1, <4>2, <4>3 DEF Promise!Release, waits, active
      <4> QED BY <4>4 DEF Promise!Next
    <3>8. CASE phase[r] # "running"
      <4>1. phase[r] = "idle"
        BY <2>2, <3>8 DEF Operation, Enqueue, Finish
      <4>2. active' = active \cup {r} /\ r \notin active
        BY <3>5, <4>1
      <4>3. Promise!Rivals(r) = {s \in Requests : /\ phase[s] # "idle"
                                                 /\ target[s] = target[r]
                                                 /\ Conflict(r, s)}
        BY DEF Promise!Rivals, Conflict
      <4>4. waits' = [waits EXCEPT ![r] = Promise!Rivals(r)]
        <5>1. waits = [x \in Requests |-> Awaited(x)]
          BY <3>1
        <5>2. waits' = [x \in Requests |->
                          IF x # r THEN Awaited(x) ELSE Promise!Rivals(r)]
          BY <3>3, <3>6, <3>8, <4>3
        <5> HIDE DEF waits
        <5> QED BY <5>1, <5>2
      <4>5. Promise!Ask(r)
        BY <3>4, <4>2, <4>4 DEF Promise!Ask
      <4> QED BY <4>5 DEF Promise!Next
    <3> QED BY <3>7, <3>8
  <2> QED BY <2>1, <2>2 DEF Next, Operation
<1> QED BY <1>1, <1>2, Invariance, PTL DEF Spec, ImplementsExclusiveAccess, Promise!Spec
=============================================================================
