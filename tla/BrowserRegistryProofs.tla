------------------------- MODULE BrowserRegistryProofs -------------------------
(***************************************************************************)
(* Proofs about the browsers of one name, for any number of requests,       *)
(* endpoints and launch modes, however many attempts outlive their deadline. *)
(* The argument: an attempt that was given up never leaves anything in the  *)
(* registry, so whoever holds the lock and has found the name free finds it *)
(* free until it is done (Registry); and a browser that is registered or    *)
(* being closed belongs to a task that is over (Registry again), so nobody  *)
(* opens it a second time.                                                  *)
(***************************************************************************)
EXTENDS BrowserRegistry, TLAPS

Active == {"preparing", "closing", "opening", "context"}
Opening == {"closing", "opening", "context"}    \* the name has been found free

(* What a task has done by the stage it is at.                              *)
Stages ==
  \A t \in Tasks :
    /\ pc[t] # "idle" => op[t] \in Ops
    /\ late[t] => op[t].kind = "connect" /\ pc[t] # "idle"
    /\ pc[t] \in {"opening", "context"} => op[t].kind # "stop"
    /\ pc[t] \in {"idle", "preparing", "closing", "opening", "failed"} => ~handle[t].open
    /\ pc[t] = "closing" <=> old[t] # Nobody
    /\ pc[t] \in {"closing", "opening"} /\ op[t].kind = "ensure" /\ op[t].wants # AnyMode =>
         launchAs[t] = op[t].wants
    /\ pc[t] = "context" =>
         /\ op[t].kind # "ensure"
         /\ handle[t].type = "connected"
         /\ op[t].kind = "connect" => handle[t].at = op[t].wants

(* Who works in time holds the lock.                                        *)
Lock ==
  \A t \in Tasks :
    /\ holder = t => pc[t] # "idle" /\ (pc[t] \in Active \/ late[t])
    /\ pc[t] \in Active /\ ~late[t] => holder = t

(* What is registered or being closed is the browser of a task that is over. *)
Registry ==
  /\ entry # Nobody => pc[entry] = "done"
  /\ doomed # Nobody => pc[doomed] = "done" /\ doomed # entry
  /\ shutdown = "no" => doomed = Nobody
  /\ \A t \in Tasks :
       /\ old[t] # Nobody => pc[old[t]] = "done" /\ old[t] # entry
       /\ pc[t] \in Opening /\ ~late[t] => entry = Nobody

IInv ==
  /\ TypeOK /\ Stages /\ Lock /\ Registry
  /\ LaunchedEntryIsOpen /\ LateAttachLeavesNothing /\ NoOrphans

-----------------------------------------------------------------------------
(* Parts of steps.                                                          *)

LEMMA NobodyIsNoTask == Nobody \notin Tasks
BY DEF Nobody, Tasks

LEMMA LaunchModeIsOne ==
  ASSUME TypeOK, NEW t \in Tasks
  PROVE  /\ LaunchMode(t) \in Modes
         /\ op[t].kind = "ensure" /\ op[t].wants # AnyMode => LaunchMode(t) = op[t].wants
<1>1. entry # Nobody /\ handle[entry].type = "launched" => handle[entry].at \in Modes
  BY DEF TypeOK, Handles
<1>2. op[t].kind = "ensure" => op[t].wants \in Modes \cup {AnyMode}
  BY DEF TypeOK, Ops, NoOp
<1>3. QED
  BY <1>1, <1>2, DefaultModeAssumption DEF LaunchMode

LEMMA OpenedIsWhatWasAsked ==
  ASSUME TypeOK, Stages, NEW t \in Tasks, pc[t] = "opening", NEW h \in Opened(t)
  PROVE  /\ h \in Handles
         /\ h.type \in {"launched", "connected"}
         /\ h.type = "launched" => op[t].kind = "ensure"
         /\ h.type = IF op[t].kind = "ensure" THEN "launched" ELSE "connected"
         /\ op[t].kind = "connect" => h.at = op[t].wants
         /\ IsWhatWasAsked(op[t], h)
<1>1. op[t] \in Ops /\ launchAs[t] \in Modes
  BY DEF TypeOK, Stages
<1>2. CASE op[t].kind = "ensure"
  <2>1. h = [type |-> "launched", at |-> launchAs[t], open |-> TRUE]
    BY <1>2 DEF Opened
  <2>2. QED
    BY <1>1, <1>2, <2>1 DEF Stages, IsWhatWasAsked, Handles
<1>3. CASE op[t].kind = "connect"
  <2>1. op[t].wants \in Endpoints
    BY <1>1, <1>3 DEF Ops
  <2>2. h = [type |-> "connected", at |-> op[t].wants, open |-> TRUE]
    BY <1>3 DEF Opened, Found
  <2>3. QED
    BY <1>3, <2>1, <2>2 DEF IsWhatWasAsked, Handles
<1>4. CASE op[t].kind = "auto"
  <2>1. PICK e \in Endpoints : h = [type |-> "connected", at |-> e, open |-> TRUE]
    BY <1>4 DEF Opened, Found
  <2>2. op[t].wants = AnyMode
    BY <1>1, <1>4 DEF Ops
  <2>3. QED
    BY <1>4, <2>1, <2>2 DEF IsWhatWasAsked, Handles
<1>5. op[t].kind \in {"ensure", "connect", "auto"}
  BY <1>1 DEF Ops, Stages
<1>6. QED
  BY <1>2, <1>3, <1>4, <1>5

(* A task gives the lock back when it is over, or has lost it before.       *)
LEMMA SettleKeepsLock ==
  ASSUME IInv, NEW t \in Tasks, NEW outcome \in {"done", "failed"}, pc[t] \in Active,
         Settle(t, outcome), UNCHANGED late
  PROVE  /\ pc' = [pc EXCEPT ![t] = outcome]
         /\ holder' \in Tasks \cup {Nobody}
         /\ Lock'
BY NobodyIsNoTask DEF IInv, TypeOK, Lock, Settle, Active

(* Closing a browser opens none, and leaves the others as they are.         *)
LEMMA ClosingCloses ==
  ASSUME NEW browsers \in [Tasks -> Handles], NEW h \in Tasks, unclosed \in SUBSET Tasks,
         Close(h, browsers)
  PROVE  /\ handle' \in [Tasks -> Handles]
         /\ unclosed' \in SUBSET Tasks
         /\ unclosed \subseteq unclosed'
         /\ \A u \in Tasks : /\ u # h => handle'[u] = browsers[u]
                             /\ handle'[u].type = browsers[u].type
                             /\ handle'[u].at = browsers[u].at
                             /\ handle'[u].open => browsers[u].open
         /\ ~handle'[h].open \/ h \in unclosed'
<1>1. [browsers[h] EXCEPT !.open = FALSE] \in Handles
  BY DEF Handles
<1>2. CASE handle' = [browsers EXCEPT ![h].open = FALSE] /\ UNCHANGED unclosed
  BY <1>1, <1>2 DEF Handles
<1>3. CASE handle' = browsers /\ unclosed' = unclosed \cup {h}
  BY <1>3
<1>4. QED
  BY <1>2, <1>3 DEF Close

-----------------------------------------------------------------------------
(* The steps.                                                               *)

LEMMA InitEstablishes ==
  ASSUME Init PROVE IInv
<1>1. TypeOK
  BY DefaultModeAssumption DEF Init, TypeOK, Unopened, NoOp, Handles
<1>2. QED
  BY <1>1, NobodyIsNoTask
     DEF Init, IInv, Stages, Lock, Registry, LaunchedEntryIsOpen, LateAttachLeavesNothing,
         NoOrphans, Active, Opening, Unopened

LEMMA BeginKeeps ==
  ASSUME IInv, NEW t \in Tasks, Begin(t) PROVE IInv'
<1>1. PICK o \in Ops : op' = [op EXCEPT ![t] = o]
  BY DEF Begin
<1>2. /\ pc[t] = "idle" /\ pc' = [pc EXCEPT ![t] = "preparing"] /\ holder = Nobody /\ holder' = t
      /\ attempted' = {}
      /\ UNCHANGED <<late, entry, browserVars, left, launchAs, old, shutdownVars>>
  BY DEF Begin
<1>3. TypeOK'
  BY <1>1, <1>2 DEF IInv, TypeOK, shutdownVars, browserVars
<1>4. Stages'
  BY <1>1, <1>2, <1>3 DEF IInv, TypeOK, Stages, browserVars
<1>5. Lock'
  BY <1>2, NobodyIsNoTask DEF IInv, TypeOK, Lock, Stages, Active
<1>6. Registry'
  BY <1>2 DEF IInv, TypeOK, Registry, Opening, shutdownVars
<1>7. LaunchedEntryIsOpen' /\ LateAttachLeavesNothing' /\ NoOrphans'
  BY <1>2 DEF IInv, TypeOK, LaunchedEntryIsOpen, LateAttachLeavesNothing, NoOrphans, Stages,
              browserVars, shutdownVars
<1>8. QED
  BY <1>3, <1>4, <1>5, <1>6, <1>7 DEF IInv

(* A task that fails leaves what it found.                                  *)
LEMMA FailureKeeps ==
  ASSUME IInv, NEW t \in Tasks, pc[t] \in {"preparing", "opening"}, Settle(t, "failed"),
         attempted' \in SUBSET Endpoints,
         UNCHANGED <<op, late, entry, browserVars, left, launchAs, old, shutdownVars>>
  PROVE  IInv'
<1>1. pc' = [pc EXCEPT ![t] = "failed"] /\ holder' \in Tasks \cup {Nobody} /\ Lock'
  BY SettleKeepsLock DEF Active
<1>2. TypeOK'
  BY <1>1 DEF IInv, TypeOK, shutdownVars, browserVars
<1>3. Stages' /\ Registry'
  BY <1>1 DEF IInv, TypeOK, Stages, Registry, Opening, shutdownVars, browserVars
<1>4. LaunchedEntryIsOpen' /\ LateAttachLeavesNothing' /\ NoOrphans'
  BY <1>1 DEF IInv, TypeOK, Stages, LaunchedEntryIsOpen, LateAttachLeavesNothing, NoOrphans,
              shutdownVars, browserVars
<1>5. QED
  BY <1>1, <1>2, <1>3, <1>4 DEF IInv

LEMMA PreparationFailureKeeps ==
  ASSUME IInv, NEW t \in Tasks, PrepareFails(t) \/ NothingOpened(t) PROVE IInv'
<1>1. /\ pc[t] \in {"preparing", "opening"} /\ Settle(t, "failed") /\ UNCHANGED attempted
      /\ UNCHANGED <<op, late, entry, browserVars, left, launchAs, old, shutdownVars>>
  BY DEF PrepareFails, NothingOpened, discoveryVars
<1>2. QED
  BY <1>1, FailureKeeps DEF IInv, TypeOK

(* A discovery that fails to attach remembers the endpoint and goes on.     *)
LEMMA AttachFailureKeeps ==
  ASSUME IInv, NEW t \in Tasks, AttachFails(t) PROVE IInv'
<1>1. PICK e \in Found(t) : GiveUp(t, e)
  BY DEF AttachFails
<1>2. /\ pc[t] = "opening" /\ op[t].kind # "ensure"
      /\ UNCHANGED <<op, late, entry, browserVars, left, launchAs, old, shutdownVars>>
  BY DEF AttachFails
<1>3. CASE op[t].kind = "auto"
  <2>1. attempted' = attempted \cup {e} /\ pc' = [pc EXCEPT ![t] = "opening"] /\ holder' = holder
    BY <1>1, <1>3 DEF GiveUp
  <2>2. pc' = pc
    BY <1>2, <2>1 DEF IInv, TypeOK
  <2>3. e \in Endpoints
    BY <1>3 DEF Found
  <2>4. QED
    BY <1>2, <2>1, <2>2, <2>3
       DEF IInv, TypeOK, Stages, Lock, Registry, LaunchedEntryIsOpen, LateAttachLeavesNothing,
           NoOrphans, browserVars, shutdownVars
<1>4. CASE op[t].kind # "auto"
  <2>1. Settle(t, "failed") /\ attempted' = attempted
    BY <1>1, <1>4 DEF GiveUp
  <2>2. QED
    BY <1>2, <2>1, FailureKeeps DEF IInv, TypeOK
<1>5. QED
  BY <1>3, <1>4

(* A refused context takes the browser out of the hands of its task.        *)
LEMMA RefusalKeeps ==
  ASSUME IInv, NEW t \in Tasks, ContextRefused(t) PROVE IInv'
<1>1. /\ pc[t] = "context" /\ GiveUp(t, handle[t].at)
      /\ handle' = [handle EXCEPT ![t] = Unopened]
      /\ left' = IF handle[t].open THEN left \cup {handle[t].at} ELSE left
      /\ UNCHANGED <<op, late, entry, unclosed, launchAs, old, shutdownVars>>
  BY DEF ContextRefused
<1>2. handle[t].type = "connected" /\ op[t].kind \notin {"ensure", "stop"}
  BY <1>1 DEF IInv, Stages
<1>3. handle[t].at \in Endpoints
  BY <1>2 DEF IInv, TypeOK, Handles
<1>4. Unopened \in Handles /\ ~Unopened.open
  BY DefaultModeAssumption DEF Unopened, Handles
<1>5. /\ handle' \in [Tasks -> Handles] /\ ~handle'[t].open
      /\ \A u \in Tasks : u # t => handle'[u] = handle[u]
  BY <1>1, <1>4 DEF IInv, TypeOK
<1>6. entry # t /\ (\A u \in Tasks : old[u] # t) /\ doomed # t
  BY <1>1, NobodyIsNoTask DEF IInv, Registry
<1>7. \E to \in {"opening", "failed"} : pc' = [pc EXCEPT ![t] = to]
  BY <1>1 DEF GiveUp, Settle
<1>8. attempted' \in SUBSET Endpoints /\ left' \in SUBSET Endpoints /\ holder' \in Tasks \cup {Nobody}
  BY <1>1, <1>3, NobodyIsNoTask DEF IInv, TypeOK, GiveUp, Settle
<1>9. Lock'
  <2>1. CASE op[t].kind = "auto"
    BY <1>1, <2>1 DEF IInv, TypeOK, Lock, Active, GiveUp
  <2>2. CASE op[t].kind # "auto"
    <3>1. Settle(t, "failed")
      BY <1>1, <2>2 DEF GiveUp
    <3>2. QED
      BY <1>1, <3>1, SettleKeepsLock DEF Active
  <2>3. QED
    BY <2>1, <2>2
<1>10. TypeOK'
  BY <1>1, <1>5, <1>7, <1>8 DEF IInv, TypeOK, shutdownVars
<1>11. Stages'
  BY <1>1, <1>2, <1>5, <1>7, NobodyIsNoTask DEF IInv, TypeOK, Stages, GiveUp, Settle
<1>12. Registry'
  BY <1>1, <1>6, <1>7 DEF IInv, TypeOK, Registry, Opening, shutdownVars
<1>13. LaunchedEntryIsOpen' /\ LateAttachLeavesNothing' /\ NoOrphans'
  BY <1>1, <1>5, <1>6, <1>7, NobodyIsNoTask
     DEF IInv, TypeOK, LaunchedEntryIsOpen, LateAttachLeavesNothing, NoOrphans, shutdownVars
<1>14. QED
  BY <1>9, <1>10, <1>11, <1>12, <1>13 DEF IInv

LEMMA ReuseKeeps ==
  ASSUME IInv, NEW t \in Tasks, Reuse(t) PROVE IInv'
<1>1. /\ pc[t] = "preparing" /\ entry \in Tasks /\ Settle(t, "done")
      /\ entry' = IF late[t] THEN Nobody ELSE entry
      /\ IF late[t] THEN Close(entry, handle) ELSE UNCHANGED browserVars
      /\ UNCHANGED <<op, late, discoveryVars, launchAs, old, shutdownVars>>
  BY DEF IInv, TypeOK, Reuse, Deliver, browserVars
<1>2. pc' = [pc EXCEPT ![t] = "done"] /\ holder' \in Tasks \cup {Nobody} /\ Lock'
  BY <1>1, SettleKeepsLock DEF Active
<1>3. /\ handle' \in [Tasks -> Handles] /\ unclosed' \in SUBSET Tasks /\ unclosed \subseteq unclosed'
      /\ \A h \in Tasks : /\ h # entry => handle'[h] = handle[h]
                          /\ handle'[h].type = handle[h].type /\ handle'[h].at = handle[h].at
                          /\ handle'[h].open => handle[h].open
      /\ ~late[t] => handle' = handle
  BY <1>1, ClosingCloses DEF IInv, TypeOK, browserVars
<1>4. TypeOK'
  BY <1>1, <1>2, <1>3 DEF IInv, TypeOK, shutdownVars, discoveryVars
<1>5. Stages'
  BY <1>1, <1>2, <1>3 DEF IInv, TypeOK, Stages
<1>6. Registry'
  BY <1>1, <1>2 DEF IInv, TypeOK, Registry, Opening, shutdownVars
<1>7. LaunchedEntryIsOpen' /\ NoOrphans'
  <2>1. CASE late[t]
    BY <1>1, <2>1 DEF LaunchedEntryIsOpen, NoOrphans
  <2>2. CASE ~late[t]
    <3>1. handle' = handle /\ unclosed' = unclosed /\ entry' = entry
      BY <1>1, <2>2 DEF browserVars
    <3>2. \A h \in Tasks : handle[h].open => h # t
      BY <1>1 DEF IInv, Stages
    <3>3. QED
      BY <1>1, <1>2, <3>1, <3>2 DEF IInv, TypeOK, LaunchedEntryIsOpen, NoOrphans, shutdownVars
  <2>3. QED
    BY <2>1, <2>2
<1>8. LateAttachLeavesNothing'
  <2> SUFFICES ASSUME NEW u \in Tasks, late[u]
               PROVE  entry' # u /\ (pc'[u] = "done" => ~handle'[u].open \/ u \in unclosed')
    BY <1>1 DEF LateAttachLeavesNothing
  <2>1. entry # u /\ (pc[u] = "done" => ~handle[u].open \/ u \in unclosed)
    BY DEF IInv, LateAttachLeavesNothing
  <2>2. ~handle[t].open
    BY <1>1 DEF IInv, Stages
  <2>3. pc'[u] = "done" => pc[u] = "done" \/ u = t
    BY <1>2 DEF IInv, TypeOK
  <2>4. QED
    BY <1>1, <1>3, <2>1, <2>2, <2>3, NobodyIsNoTask
<1>9. QED
  BY <1>2, <1>4, <1>5, <1>6, <1>7, <1>8 DEF IInv

LEMMA ReplaceKeeps ==
  ASSUME IInv, NEW t \in Tasks, Replace(t) PROVE IInv'
<1>1. /\ pc[t] = "preparing" /\ entry \in Tasks
      /\ launchAs' = [launchAs EXCEPT ![t] = LaunchMode(t)]
      /\ old' = [old EXCEPT ![t] = entry] /\ entry' = Nobody
      /\ pc' = [pc EXCEPT ![t] = "closing"]
      /\ UNCHANGED <<op, late, holder, handle, unclosed, attempted, left, shutdownVars>>
  BY DEF IInv, TypeOK, Replace, browserVars, discoveryVars
<1>2. TypeOK'
  BY <1>1, LaunchModeIsOne DEF IInv, TypeOK, shutdownVars
<1>3. Stages'
  BY <1>1, LaunchModeIsOne, NobodyIsNoTask DEF IInv, TypeOK, Stages
<1>4. Lock' /\ Registry'
  BY <1>1, NobodyIsNoTask DEF IInv, TypeOK, Lock, Registry, Active, Opening, shutdownVars
<1>5. LaunchedEntryIsOpen' /\ LateAttachLeavesNothing'
  BY <1>1, NobodyIsNoTask DEF IInv, TypeOK, LaunchedEntryIsOpen, LateAttachLeavesNothing
<1>6. NoOrphans'
  BY <1>1 DEF IInv, TypeOK, Stages, NoOrphans, shutdownVars
<1>7. QED
  BY <1>2, <1>3, <1>4, <1>5, <1>6 DEF IInv

LEMMA StartFreshKeeps ==
  ASSUME IInv, NEW t \in Tasks, StartFresh(t) PROVE IInv'
<1>1. /\ pc[t] = "preparing" /\ entry = Nobody
      /\ launchAs' = [launchAs EXCEPT ![t] = LaunchMode(t)]
      /\ UNCHANGED <<op, late, entry, handle, unclosed, attempted, left, old, shutdownVars>>
  BY DEF StartFresh, browserVars, discoveryVars
<1>2. CASE op[t].kind = "stop"
  <2>1. Settle(t, "done")
    BY <1>2 DEF StartFresh
  <2>2. pc' = [pc EXCEPT ![t] = "done"] /\ holder' \in Tasks \cup {Nobody} /\ Lock'
    BY <1>1, <2>1, SettleKeepsLock DEF Active
  <2>3. TypeOK'
    BY <1>1, <2>2, LaunchModeIsOne DEF IInv, TypeOK, shutdownVars
  <2>4. Stages' /\ Registry'
    BY <1>1, <2>2 DEF IInv, TypeOK, Stages, Registry, Opening, shutdownVars
  <2>5. LaunchedEntryIsOpen' /\ LateAttachLeavesNothing' /\ NoOrphans'
    BY <1>1, <2>2 DEF IInv, TypeOK, Stages, LaunchedEntryIsOpen, LateAttachLeavesNothing, NoOrphans, shutdownVars
  <2>6. QED
    BY <2>2, <2>3, <2>4, <2>5 DEF IInv
<1>3. CASE op[t].kind # "stop"
  <2>1. pc' = [pc EXCEPT ![t] = "opening"] /\ holder' = holder
    BY <1>3 DEF StartFresh
  <2>2. TypeOK'
    BY <1>1, <2>1, LaunchModeIsOne DEF IInv, TypeOK, shutdownVars
  <2>3. Stages'
    BY <1>1, <1>3, <2>1, LaunchModeIsOne DEF IInv, TypeOK, Stages
  <2>4. Lock' /\ Registry'
    BY <1>1, <2>1 DEF IInv, TypeOK, Lock, Registry, Active, Opening, shutdownVars
  <2>5. LaunchedEntryIsOpen' /\ LateAttachLeavesNothing' /\ NoOrphans'
    BY <1>1, <2>1 DEF IInv, TypeOK, Stages, LaunchedEntryIsOpen, LateAttachLeavesNothing, NoOrphans, shutdownVars
  <2>6. QED
    BY <2>2, <2>3, <2>4, <2>5 DEF IInv
<1>4. QED
  BY <1>2, <1>3

LEMMA ClosedKeeps ==
  ASSUME IInv, NEW t \in Tasks, Closed(t) PROVE IInv'
<1>1. /\ pc[t] = "closing" /\ old[t] \in Tasks
      /\ Close(old[t], handle)
      /\ old' = [old EXCEPT ![t] = Nobody]
      /\ UNCHANGED <<op, late, entry, attempted, left, launchAs, shutdownVars>>
  BY DEF IInv, TypeOK, Stages, Closed, discoveryVars
<1>2. /\ handle' \in [Tasks -> Handles] /\ unclosed' \in SUBSET Tasks /\ unclosed \subseteq unclosed'
      /\ \A h \in Tasks : /\ h # old[t] => handle'[h] = handle[h]
                          /\ handle'[h].type = handle[h].type /\ handle'[h].at = handle[h].at
                          /\ handle'[h].open => handle[h].open
      /\ ~handle'[old[t]].open \/ old[t] \in unclosed'
  BY <1>1, ClosingCloses DEF IInv, TypeOK
<1>3. old[t] # entry
  BY <1>1, NobodyIsNoTask DEF IInv, Registry
<1>4. LaunchedEntryIsOpen'
  BY <1>1, <1>2, <1>3 DEF IInv, TypeOK, LaunchedEntryIsOpen
<1>5. CASE op[t].kind = "stop"
  <2>1. Settle(t, "done")
    BY <1>5 DEF Closed
  <2>2. pc' = [pc EXCEPT ![t] = "done"] /\ holder' \in Tasks \cup {Nobody} /\ Lock'
    BY <1>1, <2>1, SettleKeepsLock DEF Active
  <2>3. TypeOK'
    BY <1>1, <1>2, <2>2 DEF IInv, TypeOK, shutdownVars
  <2>4. Stages' /\ Registry'
    BY <1>1, <1>2, <2>2, NobodyIsNoTask DEF IInv, TypeOK, Stages, Registry, Opening, shutdownVars
  <2>5. LateAttachLeavesNothing' /\ NoOrphans'
    BY <1>1, <1>2, <2>2 DEF IInv, TypeOK, Stages, LateAttachLeavesNothing, NoOrphans, shutdownVars
  <2>6. QED
    BY <1>4, <2>2, <2>3, <2>4, <2>5 DEF IInv
<1>6. CASE op[t].kind # "stop"
  <2>1. pc' = [pc EXCEPT ![t] = "opening"] /\ holder' = holder
    BY <1>6 DEF Closed
  <2>2. TypeOK'
    BY <1>1, <1>2, <2>1 DEF IInv, TypeOK, shutdownVars
  <2>3. Stages'
    BY <1>1, <1>2, <1>6, <2>1 DEF IInv, TypeOK, Stages
  <2>4. Lock' /\ Registry'
    BY <1>1, <2>1, NobodyIsNoTask DEF IInv, TypeOK, Lock, Registry, Active, Opening, shutdownVars
  <2>5. LateAttachLeavesNothing' /\ NoOrphans'
    BY <1>1, <1>2, <2>1 DEF IInv, TypeOK, Stages, LateAttachLeavesNothing, NoOrphans, shutdownVars
  <2>6. QED
    BY <1>4, <2>2, <2>3, <2>4, <2>5 DEF IInv
<1>7. QED
  BY <1>5, <1>6

(* A task has opened its browser and registers it, or closes it if it is    *)
(* too late.                                                                *)
LEMMA DeliveryKeeps ==
  ASSUME IInv, NEW t \in Tasks, pc[t] \in {"opening", "context"},
         NEW h \in Handles,
         h.type = "launched" => op[t].kind = "ensure" /\ h.open,
         Deliver(t, t, t, [handle EXCEPT ![t] = h]),
         UNCHANGED <<op, late, discoveryVars, launchAs, old, shutdownVars>>
  PROVE  IInv'
<1>1. Settle(t, "done") /\ entry' = IF late[t] THEN Nobody ELSE t
  BY DEF Deliver
<1>2. /\ handle' \in [Tasks -> Handles] /\ unclosed' \in SUBSET Tasks /\ unclosed \subseteq unclosed'
      /\ \A u \in Tasks : u # t => handle'[u] = handle[u]
      /\ handle'[t].type = h.type
      /\ late[t] => ~handle'[t].open \/ t \in unclosed'
      /\ ~late[t] => handle'[t] = h
  <2>1. [handle EXCEPT ![t] = h] \in [Tasks -> Handles]
    BY DEF IInv, TypeOK
  <2>2. CASE late[t]
    <3>1. Close(t, [handle EXCEPT ![t] = h])
      BY <2>2 DEF Deliver
    <3>2. unclosed \in SUBSET Tasks
      BY DEF IInv, TypeOK
    <3>3. /\ handle' \in [Tasks -> Handles] /\ unclosed' \in SUBSET Tasks
          /\ unclosed \subseteq unclosed'
          /\ \A u \in Tasks : /\ u # t => handle'[u] = [handle EXCEPT ![t] = h][u]
                              /\ handle'[u].type = [handle EXCEPT ![t] = h][u].type
          /\ ~handle'[t].open \/ t \in unclosed'
      BY <2>1, <3>1, <3>2, ClosingCloses
    <3>4. QED
      BY <2>2, <3>3 DEF IInv, TypeOK
  <2>3. CASE ~late[t]
    BY <2>1, <2>3 DEF IInv, TypeOK, Deliver
  <2>4. QED
    BY <2>2, <2>3
<1>3. pc' = [pc EXCEPT ![t] = "done"] /\ holder' \in Tasks \cup {Nobody} /\ Lock'
  BY <1>1, SettleKeepsLock DEF Active
<1>4. TypeOK'
  BY <1>1, <1>2, <1>3 DEF IInv, TypeOK, shutdownVars, discoveryVars
<1>5. Stages'
  BY <1>2, <1>3 DEF IInv, TypeOK, Stages
<1>6. \A u \in Tasks : u # t /\ pc[u] \in Active /\ ~late[u] => late[t]
  BY DEF IInv, Lock, Active
<1>7. Registry'
  BY <1>1, <1>3, <1>6 DEF IInv, TypeOK, Registry, Opening, Active, shutdownVars
<1>8. LaunchedEntryIsOpen'
  BY <1>1, <1>2 DEF IInv, TypeOK, Stages, LaunchedEntryIsOpen
<1>9. LateAttachLeavesNothing'
  BY <1>1, <1>2, <1>3, NobodyIsNoTask DEF IInv, TypeOK, LateAttachLeavesNothing
<1>10. NoOrphans'
  BY <1>1, <1>2, <1>3, NobodyIsNoTask DEF IInv, TypeOK, Registry, Opening, NoOrphans, shutdownVars
<1>11. QED
  BY <1>3, <1>4, <1>5, <1>7, <1>8, <1>9, <1>10 DEF IInv

LEMMA OpenKeeps ==
  ASSUME IInv, NEW t \in Tasks, Open(t) PROVE IInv'
<1>1. PICK h \in Opened(t) : Deliver(t, t, t, [handle EXCEPT ![t] = h])
  BY DEF Open
<1>2. pc[t] = "opening" /\ UNCHANGED <<op, late, discoveryVars, launchAs, old, shutdownVars>>
  BY DEF Open
<1>3. h.open
  BY <1>1, <1>2, OpenedIsWhatWasAsked DEF IInv, IsWhatWasAsked
<1>4. QED
  BY <1>1, <1>2, <1>3, OpenedIsWhatWasAsked, DeliveryKeeps DEF IInv

LEMMA ContextReadyKeeps ==
  ASSUME IInv, NEW t \in Tasks, ContextReady(t) PROVE IInv'
<1>1. pc[t] = "context" /\ UNCHANGED <<op, late, discoveryVars, launchAs, old, shutdownVars>>
  BY DEF ContextReady
<1>2. handle[t].type = "connected"
  BY <1>1 DEF IInv, Stages
<1>3. /\ handle[t] \in Handles
      /\ [handle EXCEPT ![t] = handle[t]] = handle
  BY <1>2 DEF IInv, TypeOK
<1>4. Deliver(t, t, t, [handle EXCEPT ![t] = handle[t]])
  BY <1>3 DEF ContextReady
<1>5. QED
  BY <1>1, <1>2, <1>3, <1>4, DeliveryKeeps

LEMMA AwaitContextKeeps ==
  ASSUME IInv, NEW t \in Tasks, AwaitContext(t) PROVE IInv'
<1>1. PICK h \in Opened(t) : handle' = [handle EXCEPT ![t] = h]
  BY DEF AwaitContext
<1>2. /\ pc[t] = "opening" /\ op[t].kind # "ensure" /\ pc' = [pc EXCEPT ![t] = "context"]
      /\ UNCHANGED <<op, late, holder, entry, unclosed, attempted, left, launchAs, old, shutdownVars>>
  BY DEF AwaitContext, discoveryVars
<1>3. /\ h \in Handles
      /\ h.type = "connected" /\ (op[t].kind = "connect" => h.at = op[t].wants)
  BY <1>1, <1>2, OpenedIsWhatWasAsked DEF IInv
<1>4. entry # t
  BY <1>2, NobodyIsNoTask DEF IInv, Registry
<1>5. TypeOK'
  BY <1>1, <1>2, <1>3 DEF IInv, TypeOK, shutdownVars
<1>6. Stages'
  BY <1>1, <1>2, <1>3 DEF IInv, TypeOK, Stages
<1>7. Lock' /\ Registry'
  BY <1>2 DEF IInv, TypeOK, Lock, Registry, Active, Opening, shutdownVars
<1>8. LaunchedEntryIsOpen' /\ LateAttachLeavesNothing' /\ NoOrphans'
  BY <1>1, <1>2, <1>4 DEF IInv, TypeOK, LaunchedEntryIsOpen, LateAttachLeavesNothing, NoOrphans, shutdownVars
<1>9. QED
  BY <1>5, <1>6, <1>7, <1>8 DEF IInv

LEMMA DeadlineKeeps ==
  ASSUME IInv, NEW t \in Tasks, Expire(t) \/ ReportTimeout(t) PROVE IInv'
<1>1. CASE Expire(t)
  <2>1. /\ op[t].kind = "connect" /\ holder = t /\ ~late[t] /\ late' = [late EXCEPT ![t] = TRUE]
        /\ UNCHANGED <<op, pc, holder, entry, handle, unclosed, attempted, left, launchAs, old, shutdownVars>>
    BY <1>1 DEF Expire, browserVars, discoveryVars
  <2>2. pc[t] \in Active /\ entry # t
    BY <2>1, NobodyIsNoTask DEF IInv, Lock, Registry, Active
  <2>3. TypeOK' /\ Stages' /\ Lock' /\ Registry'
    BY <2>1, <2>2 DEF IInv, TypeOK, Stages, Lock, Registry, Active, Opening, shutdownVars
  <2>4. LaunchedEntryIsOpen' /\ LateAttachLeavesNothing' /\ NoOrphans'
    BY <2>1, <2>2 DEF IInv, TypeOK, LaunchedEntryIsOpen, LateAttachLeavesNothing, NoOrphans, Active, shutdownVars
  <2>5. QED
    BY <2>3, <2>4 DEF IInv
<1>2. CASE ReportTimeout(t)
  <2>1. /\ late[t] /\ holder = t /\ holder' = Nobody
        /\ UNCHANGED <<op, pc, late, entry, handle, unclosed, attempted, left, launchAs, old, shutdownVars>>
    BY <1>2 DEF ReportTimeout, browserVars, discoveryVars
  <2>2. TypeOK' /\ Stages' /\ Registry'
    BY <2>1 DEF IInv, TypeOK, Stages, Registry, shutdownVars
  <2>3. Lock'
    BY <2>1, NobodyIsNoTask DEF IInv, Lock
  <2>4. LaunchedEntryIsOpen' /\ LateAttachLeavesNothing' /\ NoOrphans'
    BY <2>1 DEF IInv, LaunchedEntryIsOpen, LateAttachLeavesNothing, NoOrphans, shutdownVars
  <2>5. QED
    BY <2>2, <2>3, <2>4 DEF IInv
<1>3. QED
  BY <1>1, <1>2

LEMMA DisconnectKeeps ==
  ASSUME IInv, NEW t \in Tasks, Disconnect(t) PROVE IInv'
<1>1. /\ handle' = [handle EXCEPT ![t].open = FALSE]
      /\ entry' = IF entry = t /\ handle[t].type = "launched" THEN Nobody ELSE entry
      /\ unclosed' = unclosed \ {t}
      /\ UNCHANGED <<op, pc, late, holder, attempted, left, launchAs, old, shutdownVars>>
  BY DEF Disconnect, discoveryVars
<1>2. /\ handle' \in [Tasks -> Handles]
      /\ \A h \in Tasks : /\ handle'[h].type = handle[h].type /\ handle'[h].at = handle[h].at
                          /\ handle'[h].open = (handle[h].open /\ h # t)
  <2>1. handle \in [Tasks -> Handles]
    BY DEF IInv, TypeOK
  <2>2. [handle[t] EXCEPT !.open = FALSE] \in Handles
    BY <2>1 DEF Handles
  <2>3. QED
    BY <1>1, <2>1, <2>2 DEF Handles
<1>3. TypeOK'
  BY <1>1, <1>2 DEF IInv, TypeOK, shutdownVars
<1>4. Stages' /\ Lock' /\ Registry'
  BY <1>1, <1>2, NobodyIsNoTask DEF IInv, TypeOK, Stages, Lock, Registry, shutdownVars
<1>5. LaunchedEntryIsOpen' /\ LateAttachLeavesNothing' /\ NoOrphans'
  BY <1>1, <1>2, NobodyIsNoTask
     DEF IInv, TypeOK, LaunchedEntryIsOpen, LateAttachLeavesNothing, NoOrphans, shutdownVars
<1>6. QED
  BY <1>3, <1>4, <1>5 DEF IInv

LEMMA ShutdownKeeps ==
  ASSUME IInv, StopAll \/ StoppedAll PROVE IInv'
<1>1. CASE StopAll
  <2>1. /\ shutdown = "no" /\ shutdown' = "stopping" /\ doomed' = entry /\ entry' = Nobody
        /\ UNCHANGED <<op, pc, late, holder, handle, unclosed, attempted, left, launchAs, old>>
    BY <1>1 DEF StopAll, browserVars, discoveryVars
  <2>2. TypeOK' /\ Stages' /\ Lock' /\ Registry'
    BY <2>1, NobodyIsNoTask DEF IInv, TypeOK, Stages, Lock, Registry
  <2>3. LaunchedEntryIsOpen' /\ LateAttachLeavesNothing' /\ NoOrphans'
    BY <2>1, NobodyIsNoTask DEF IInv, LaunchedEntryIsOpen, LateAttachLeavesNothing, NoOrphans, Registry
  <2>4. QED
    BY <2>2, <2>3 DEF IInv
<1>2. CASE StoppedAll
  <2>1. /\ shutdown' = "stopped" /\ doomed' = Nobody
        /\ IF doomed = Nobody THEN UNCHANGED browserVars ELSE Close(doomed, handle)
        /\ UNCHANGED <<op, pc, late, holder, entry, attempted, left, launchAs, old>>
    BY <1>2 DEF StoppedAll, discoveryVars
  <2>2. /\ handle' \in [Tasks -> Handles] /\ unclosed' \in SUBSET Tasks
        /\ unclosed \subseteq unclosed'
        /\ \A h \in Tasks : /\ h # doomed => handle'[h] = handle[h]
                            /\ handle'[h].type = handle[h].type /\ handle'[h].at = handle[h].at
                            /\ handle'[h].open => handle[h].open
                            /\ h = doomed => ~handle'[h].open \/ h \in unclosed'
    BY <2>1, NobodyIsNoTask, ClosingCloses DEF IInv, TypeOK, browserVars
  <2>3. TypeOK'
    BY <2>1, <2>2 DEF IInv, TypeOK
  <2>4. Stages' /\ Lock' /\ Registry'
    BY <2>1, <2>2 DEF IInv, TypeOK, Stages, Lock, Registry
  <2>5. LaunchedEntryIsOpen' /\ LateAttachLeavesNothing' /\ NoOrphans'
    BY <2>1, <2>2, NobodyIsNoTask
       DEF IInv, TypeOK, LaunchedEntryIsOpen, LateAttachLeavesNothing, NoOrphans, Registry
  <2>6. QED
    BY <2>3, <2>4, <2>5 DEF IInv
<1>3. QED
  BY <1>1, <1>2

LEMMA NextKeeps ==
  ASSUME IInv, [Next]_vars PROVE IInv'
<1>1. ASSUME NEW t \in Tasks, Stage(t) PROVE IInv'
  BY <1>1, PreparationFailureKeeps, AttachFailureKeeps, RefusalKeeps, ReuseKeeps, ReplaceKeeps,
     StartFreshKeeps, ClosedKeeps, OpenKeeps, AwaitContextKeeps, ContextReadyKeeps DEF Stage
<1>2. CASE UNCHANGED vars
  BY <1>2 DEF IInv, TypeOK, Stages, Lock, Registry, LaunchedEntryIsOpen, LateAttachLeavesNothing,
              NoOrphans, vars, shutdownVars, browserVars, discoveryVars
<1>3. CASE Next
  BY <1>1, <1>3, BeginKeeps, DeadlineKeeps, DisconnectKeeps, ShutdownKeeps DEF Next
<1>4. QED
  BY <1>2, <1>3

-----------------------------------------------------------------------------
(* The inductive invariant holds in every reachable state.                  *)
THEOREM RegistryInvariance == Spec => []IInv
<1>1. Init => IInv
  BY InitEstablishes
<1>2. IInv /\ [Next]_vars => IInv'
  BY NextKeeps
<1>3. QED
  BY <1>1, <1>2, PTL DEF Spec

(* The type invariant.                                                      *)
THEOREM RegistryTypeCorrect == Spec => []TypeOK
<1>1. IInv => TypeOK
  BY DEF IInv
<1>2. QED
  BY <1>1, RegistryInvariance, PTL

(* A launched browser that is gone is not offered.                          *)
(* (browser-manager.ts:625-644 and 986-999)                                 *)
THEOREM GoneBrowsersAreNotOffered == Spec => []LaunchedEntryIsOpen
<1>1. IInv => LaunchedEntryIsOpen
  BY DEF IInv
<1>2. QED
  BY <1>1, RegistryInvariance, PTL

(* An attempt that outlived its deadline leaves nothing behind.             *)
(* (browser-manager.ts:301-349)                                             *)
THEOREM LateAttemptsLeaveNothing == Spec => []LateAttachLeavesNothing
<1>1. IInv => LateAttachLeavesNothing
  BY DEF IInv
<1>2. QED
  BY <1>1, RegistryInvariance, PTL

(* While deadlines hold, an open browser is on record, in somebody's hands, *)
(* or one whose closing failed.  (browser-manager.ts:235-265 and 625-770)   *)
THEOREM NobodyIsOrphaned == Spec => []NoOrphans
<1>1. IInv => NoOrphans
  BY DEF IInv
<1>2. QED
  BY <1>1, RegistryInvariance, PTL

(* A request that succeeds leaves registered, and open, what it asked for,  *)
(* however many abandoned attempts are still under way.                     *)
(* (browser-manager.ts:189-349)                                             *)
THEOREM RequestsGetWhatTheyAskedFor == Spec => PrepareDelivers
<1> DEFINE Delivered(t) == IF op[t].kind = "stop"
                           THEN entry' = Nobody
                           ELSE entry' # Nobody /\ IsWhatWasAsked(op[t], handle'[entry'])
           Done(t) == pc[t] # "done" /\ pc'[t] = "done" /\ ~late[t] => Delivered(t)
<1>1. ASSUME IInv, [Next]_vars, NEW t \in Tasks, pc[t] # "done", pc'[t] = "done", ~late[t]
      PROVE  Delivered(t)
  <2>1. Stage(t)
    <3>1. pc \in [Tasks -> {"idle", "preparing", "closing", "opening", "context", "done", "failed"}]
      BY <1>1 DEF IInv, TypeOK
    <3>2. pc' # pc
      BY <1>1
    <3>3. PICK u \in Tasks : Begin(u) \/ Stage(u)
      BY <1>1, <3>2 DEF Next, Expire, ReportTimeout, Disconnect, StopAll, StoppedAll, vars
    <3>4. \E to \in {"preparing", "closing", "opening", "context", "done", "failed"} :
            pc' = [pc EXCEPT ![u] = to]
      BY <3>3 DEF Begin, Stage, PrepareFails, Reuse, Replace, StartFresh, Closed, Open, AwaitContext,
                  ContextReady, NothingOpened, AttachFails, ContextRefused, GiveUp, Settle, Deliver
    <3>5. u = t
      BY <1>1, <3>1, <3>4
    <3>6. ~Begin(t)
      BY <1>1, <3>1 DEF Begin
    <3>7. QED
      BY <3>3, <3>5, <3>6
  <2>2. CASE Reuse(t)
    <3>1. entry' = entry /\ entry \in Tasks /\ Satisfies(t, entry)
      BY <1>1, <2>2 DEF IInv, TypeOK, Reuse, Deliver
    <3>2. handle'[entry] = handle[entry]
      BY <1>1, <2>2, <3>1 DEF IInv, TypeOK, Reuse, Deliver
    <3>3. op[t] \in Ops
      BY <1>1, <2>2 DEF IInv, Stages, Reuse
    <3>4. op[t].kind = "auto" => op[t].wants = AnyMode
      BY <3>3 DEF Ops
    <3>5. QED
      BY <3>1, <3>2, <3>4, NobodyIsNoTask DEF Satisfies, IsWhatWasAsked
  <2>3. CASE StartFresh(t)
    BY <1>1, <2>3 DEF IInv, TypeOK, StartFresh
  <2>4. CASE Closed(t)
    BY <1>1, <2>4 DEF IInv, TypeOK, Registry, Opening, Closed
  <2>5. CASE Open(t)
    <3>1. PICK h \in Opened(t) : Deliver(t, t, t, [handle EXCEPT ![t] = h])
      BY <2>5 DEF Open
    <3>2. pc[t] = "opening" /\ op[t].kind # "stop"
      BY <1>1, <2>5 DEF IInv, Stages, Open
    <3>3. /\ h \in Handles
          /\ IsWhatWasAsked(op[t], h)
      BY <1>1, <3>1, <3>2, OpenedIsWhatWasAsked DEF IInv
    <3>4. entry' = t /\ handle'[t] = h
      BY <1>1, <3>1, <3>3 DEF IInv, TypeOK, Deliver
    <3>5. QED
      BY <3>2, <3>3, <3>4, NobodyIsNoTask DEF IsWhatWasAsked
  <2>6. CASE ContextReady(t)
    <3>1. pc[t] = "context" /\ handle[t].open /\ Deliver(t, t, t, handle)
      BY <2>6 DEF ContextReady
    <3>2. entry' = t /\ handle'[t] = handle[t]
      BY <1>1, <3>1 DEF IInv, TypeOK, Deliver
    <3>3. /\ op[t] \in Ops /\ op[t].kind \notin {"stop", "ensure"}
          /\ handle[t].type = "connected" /\ (op[t].kind = "connect" => handle[t].at = op[t].wants)
      BY <1>1, <3>1 DEF IInv, Stages
    <3>4. op[t].kind = "auto" => op[t].wants = AnyMode
      BY <3>3 DEF Ops
    <3>5. op[t].kind \in {"connect", "auto"}
      BY <3>3 DEF Ops
    <3>6. QED
      BY <3>1, <3>2, <3>3, <3>4, <3>5, NobodyIsNoTask DEF IsWhatWasAsked
  <2>7. CASE \/ PrepareFails(t) \/ Replace(t) \/ AwaitContext(t)
             \/ NothingOpened(t) \/ AttachFails(t) \/ ContextRefused(t)
    BY <1>1, <2>7 DEF IInv, TypeOK, PrepareFails, Replace, AwaitContext, NothingOpened, AttachFails,
                      ContextRefused, GiveUp, Settle
  <2>8. QED
    BY <2>1, <2>2, <2>3, <2>4, <2>5, <2>6, <2>7 DEF Stage
<1>2. IInv /\ [Next]_vars => [\A t \in Tasks : Done(t)]_vars
  BY <1>1
<1>3. QED
  BY <1>2, RegistryInvariance, PTL DEF Spec, PrepareDelivers
===============================================================================
