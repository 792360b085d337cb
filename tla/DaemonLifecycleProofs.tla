------------------------- MODULE DaemonLifecycleProofs -------------------------
(***************************************************************************)
(* Proofs about the life cycle of the daemon, for any number of commands,   *)
(* builds and daemon processes.  They rest on one fact that survives any     *)
(* change of who listens at the socket path: a daemon gives up what it runs  *)
(* before it removes its files and exits (Cut).  That commands and daemons  *)
(* implement ServedCommands needs besides that a stop does nothing else      *)
(* (Roles), that work is with one daemon and waited for (Homes), and that a *)
(* daemon begins afresh (Unspawned).                                        *)
(***************************************************************************)
EXTENDS DaemonLifecycle, TLAPS

(* A daemon that is removing its files, or gone, runs nothing.              *)
Cut == \A d \in Daemons : down[d] \in {"cleaning", "exited", "killed"} => working[d] = {}

IInv == TypeOK /\ Cut /\ RestartSparesWork /\ NoAnswerAwaitedInVain

-----------------------------------------------------------------------------
(* Steps of the command line.                                               *)

LEMMA InitEstablishes ==
  ASSUME Init PROVE IInv
BY DEF Init, IInv, TypeOK, Cut, RestartSparesWork, NoAnswerAwaitedInVain, None

(* A command goes on, and nothing changes for the daemons.                  *)
LEMMA GoingOnKeeps ==
  ASSUME IInv, NEW c \in Commands, pc[c] # "working",
         NEW place \in {"look", "probe", "restart", "awaitExit", "spawn", "awaitReady", "send",
                        "done", "failed"},
         Go(c, place), UNCHANGED <<kind, built, daemonVars, socketFile, pidFile>>,
         saw' \in [Commands -> Versions \cup {NoVersion}]
  PROVE  IInv'
<1>1. /\ pc' = [pc EXCEPT ![c] = place]
      /\ UNCHANGED <<kind, built, version, up, down, restarting, working, toUnlink, socketFile, pidFile>>
  BY DEF Go, daemonVars
<1>2. TypeOK'
  BY <1>1 DEF IInv, TypeOK
<1>3. Cut' /\ RestartSparesWork'
  BY <1>1 DEF IInv, Cut, RestartSparesWork
<1>4. NoAnswerAwaitedInVain'
  BY <1>1 DEF IInv, TypeOK, NoAnswerAwaitedInVain, Alive
<1>5. QED
  BY <1>2, <1>3, <1>4 DEF IInv

LEMMA QuietStepsKeep ==
  ASSUME IInv, NEW c \in Commands, Look(c) \/ Probe(c) \/ AwaitExit(c) \/ AwaitReady(c)
  PROVE  IInv'
<1>1. saw \in [Commands -> Versions \cup {NoVersion}] /\ version \in [Daemons -> Versions \cup {NoVersion}]
  BY DEF IInv, TypeOK
<1>2. CASE Look(c)
  <2>1. PICK place \in {"done", "spawn", "send", "probe"} : Go(c, place)
    BY <1>2 DEF Look
  <2>2. pc[c] = "look" /\ UNCHANGED <<kind, built, saw, daemonVars, socketFile, pidFile>>
    BY <1>2 DEF Look
  <2>3. QED
    BY <1>1, <2>1, <2>2, GoingOnKeeps
<1>3. CASE Probe(c)
  <2>1. pc[c] = "probe" /\ UNCHANGED <<kind, built, daemonVars, socketFile, pidFile>>
    BY <1>3 DEF Probe
  <2>2. PICK place \in {"send", "restart", "failed"} : Go(c, place)
    BY <1>3 DEF Probe
  <2>3. saw' = saw \/ \E d \in Daemons : saw' = [saw EXCEPT ![c] = version[d]]
    BY <1>3 DEF Probe
  <2>4. saw' \in [Commands -> Versions \cup {NoVersion}]
    BY <1>1, <2>3
  <2>5. QED
    BY <2>1, <2>2, <2>4, GoingOnKeeps
<1>4. CASE AwaitExit(c)
  <2>1. PICK place \in {"done", "spawn", "failed"} : Go(c, place)
    BY <1>4 DEF AwaitExit
  <2>2. pc[c] = "awaitExit" /\ UNCHANGED <<kind, built, saw, daemonVars, socketFile, pidFile>>
    BY <1>4 DEF AwaitExit
  <2>3. QED
    BY <1>1, <2>1, <2>2, GoingOnKeeps
<1>5. CASE AwaitReady(c)
  <2>1. PICK place \in {"send", "failed"} : Go(c, place)
    BY <1>5 DEF AwaitReady
  <2>2. pc[c] = "awaitReady" /\ UNCHANGED <<kind, built, saw, daemonVars, socketFile, pidFile>>
    BY <1>5 DEF AwaitReady
  <2>3. QED
    BY <1>1, <2>1, <2>2, GoingOnKeeps
<1>6. QED
  BY <1>2, <1>3, <1>4, <1>5

LEMMA RequestRestartKeeps ==
  ASSUME IInv, NEW c \in Commands, RequestRestart(c) PROVE IInv'
<1>1. /\ pc[c] = "restart"
      /\ saw' = [saw EXCEPT ![c] = NoVersion]
      /\ UNCHANGED <<kind, built, version, up, working, toUnlink, socketFile, pidFile>>
  BY DEF RequestRestart
<1>2. saw' \in [Commands -> Versions \cup {NoVersion}]
  BY <1>1 DEF IInv, TypeOK
<1>3. CASE Go(c, "failed") /\ UNCHANGED <<restarting, down>>
  BY <1>1, <1>2, <1>3, GoingOnKeeps DEF daemonVars
<1>4. ASSUME NEW d \in Daemons, Serves(d), MayRestart(c, d), NEW place \in {"spawn", "awaitExit"},
             restarting' = [restarting EXCEPT ![d] = TRUE], down' = [down EXCEPT ![d] = "asked"],
             Go(c, place)
      PROVE  IInv'
  <2>1. /\ pc' = [pc EXCEPT ![c] = place] /\ working[d] = {}
        /\ down[d] \in {"no", "asked"} /\ Alive(d)
    BY <1>4 DEF Go, Serves, Reaches, MayRestart
  <2>2. TypeOK'
    BY <1>1, <1>2, <1>4, <2>1 DEF IInv, TypeOK
  <2>3. Cut' /\ RestartSparesWork'
    BY <1>1, <1>4, <2>1 DEF IInv, TypeOK, Cut, RestartSparesWork
  <2>4. NoAnswerAwaitedInVain'
    BY <1>1, <1>4, <2>1 DEF IInv, TypeOK, NoAnswerAwaitedInVain, Alive
  <2>5. QED
    BY <2>2, <2>3, <2>4 DEF IInv
<1>5. QED
  BY <1>3, <1>4 DEF RequestRestart

LEMMA SpawnKeeps ==
  ASSUME IInv, NEW c \in Commands, SpawnDaemon(c) PROVE IInv'
<1>1. PICK d \in Daemons : /\ up[d] = "unborn"
                           /\ up' = [up EXCEPT ![d] = "born"]
                           /\ version' = [version EXCEPT ![d] = built[c]]
  BY DEF SpawnDaemon
<1>2. /\ pc[c] = "spawn" /\ pc' = [pc EXCEPT ![c] = "awaitReady"]
      /\ UNCHANGED <<kind, built, saw, down, restarting, working, toUnlink, socketFile, pidFile>>
  BY DEF SpawnDaemon, Go
<1>3. TypeOK'
  <2>1. built[c] \in Versions
    BY DEF IInv, TypeOK
  <2>2. QED
    BY <1>1, <1>2, <2>1 DEF IInv, TypeOK
<1>4. Cut' /\ RestartSparesWork'
  BY <1>2 DEF IInv, TypeOK, Cut, RestartSparesWork
<1>5. NoAnswerAwaitedInVain'
  BY <1>1, <1>2 DEF IInv, TypeOK, NoAnswerAwaitedInVain, Alive
<1>6. QED
  BY <1>3, <1>4, <1>5 DEF IInv

LEMMA SendWorkKeeps ==
  ASSUME IInv, NEW c \in Commands, SendWork(c) PROVE IInv'
<1>1. pc[c] = "send" /\ UNCHANGED <<kind, built, saw, version, up, down, restarting, toUnlink, socketFile, pidFile>>
  BY DEF SendWork
<1>2. CASE Go(c, "failed") /\ UNCHANGED working
  <2>1. saw \in [Commands -> Versions \cup {NoVersion}]
    BY DEF IInv, TypeOK
  <2>2. QED
    BY <1>1, <1>2, <2>1, GoingOnKeeps DEF daemonVars
<1>3. ASSUME NEW d \in Daemons, MayBegin(d), working' = [working EXCEPT ![d] = @ \cup {c}],
             Go(c, "working")
      PROVE  IInv'
  <2>1. /\ pc' = [pc EXCEPT ![c] = "working"] /\ ~restarting[d]
        /\ down[d] \in {"no", "asked"} /\ Alive(d)
    BY <1>3 DEF Go, MayBegin, Serves, Reaches
  <2>2. TypeOK'
    BY <1>1, <1>3, <2>1 DEF IInv, TypeOK
  <2>3. Cut' /\ RestartSparesWork'
    BY <1>1, <1>3, <2>1 DEF IInv, TypeOK, Cut, RestartSparesWork
  <2>4. NoAnswerAwaitedInVain'
    BY <1>1, <1>3, <2>1 DEF IInv, TypeOK, NoAnswerAwaitedInVain, Alive
  <2>5. QED
    BY <2>2, <2>3, <2>4 DEF IInv
<1>4. QED
  BY <1>2, <1>3 DEF SendWork

LEMMA SendStopKeeps ==
  ASSUME IInv, NEW c \in Commands, SendStop(c) PROVE IInv'
<1>1. /\ pc[c] = "send"
      /\ UNCHANGED <<kind, built, saw, version, up, restarting, working, toUnlink, socketFile, pidFile>>
  BY DEF SendStop
<1>2. PICK place \in {"done", "awaitExit", "failed"} : pc' = [pc EXCEPT ![c] = place]
  BY DEF SendStop, Go
<1>3. \/ down' = down
      \/ \E d \in Daemons : down' = [down EXCEPT ![d] = IF @ = "no" THEN "asked" ELSE @]
  BY DEF SendStop
<1>4. /\ down' \in [Daemons -> {"no", "asked", "closing", "cleaning", "exited", "killed"}]
      /\ \A d \in Daemons : down[d] # "no" => down'[d] = down[d]
      /\ \A d \in Daemons : down[d] = "no" => down'[d] \in {"no", "asked"}
  BY <1>3 DEF IInv, TypeOK
<1>5. TypeOK'
  BY <1>1, <1>2, <1>4 DEF IInv, TypeOK
<1>6. Cut' /\ RestartSparesWork'
  BY <1>1, <1>2, <1>4 DEF IInv, TypeOK, Cut, RestartSparesWork
<1>7. NoAnswerAwaitedInVain'
  BY <1>1, <1>2, <1>4 DEF IInv, TypeOK, NoAnswerAwaitedInVain, Alive
<1>8. QED
  BY <1>5, <1>6, <1>7 DEF IInv

LEMMA FinishWorkKeeps ==
  ASSUME IInv, NEW c \in Commands, NEW d \in Daemons, FinishWork(c, d) PROVE IInv'
<1>1. /\ working' = [working EXCEPT ![d] = @ \ {c}] /\ pc' = [pc EXCEPT ![c] = "done"]
      /\ UNCHANGED <<kind, built, saw, version, up, down, restarting, toUnlink, socketFile, pidFile>>
  BY DEF FinishWork, Go
<1>2. TypeOK'
  BY <1>1 DEF IInv, TypeOK
<1>3. Cut' /\ RestartSparesWork'
  BY <1>1 DEF IInv, TypeOK, Cut, RestartSparesWork
<1>4. NoAnswerAwaitedInVain'
  BY <1>1 DEF IInv, TypeOK, NoAnswerAwaitedInVain, Alive
<1>5. QED
  BY <1>2, <1>3, <1>4 DEF IInv

-----------------------------------------------------------------------------
(* Steps of the daemons.                                                    *)

LEMMA StartKeeps ==
  ASSUME IInv, NEW d \in Daemons, ClearSocket(d) \/ WritePid(d) \/ Listen(d) PROVE IInv'
<1>1. /\ up[d] # "unborn" /\ UNCHANGED <<kind, built, pc, saw, version, restarting, working, toUnlink>>
      /\ socketFile' \in Daemons \cup {None} /\ pidFile' \in Daemons \cup {None}
  BY DEF IInv, TypeOK, ClearSocket, WritePid, Listen, cliVars, daemonVars
<1>2. PICK to \in {"cleared", "named", "bound", "refused"} : up' = [up EXCEPT ![d] = to]
  BY DEF ClearSocket, WritePid, Listen
<1>3. down' = down \/ down' = [down EXCEPT ![d] = IF @ = "no" THEN "asked" ELSE @]
  BY DEF ClearSocket, WritePid, Listen
<1>4. /\ down' \in [Daemons -> {"no", "asked", "closing", "cleaning", "exited", "killed"}]
      /\ \A e \in Daemons : down[e] # "no" => down'[e] = down[e]
      /\ \A e \in Daemons : down[e] = "no" => down'[e] \in {"no", "asked"}
  BY <1>3 DEF IInv, TypeOK
<1>5. TypeOK'
  BY <1>1, <1>2, <1>4 DEF IInv, TypeOK
<1>6. Cut' /\ RestartSparesWork'
  BY <1>1, <1>4 DEF IInv, TypeOK, Cut, RestartSparesWork
<1>7. NoAnswerAwaitedInVain'
  BY <1>1, <1>2, <1>4 DEF IInv, TypeOK, NoAnswerAwaitedInVain, Alive
<1>8. QED
  BY <1>5, <1>6, <1>7 DEF IInv

LEMMA CloseServerKeeps ==
  ASSUME IInv, NEW d \in Daemons, CloseServer(d) PROVE IInv'
<1>1. /\ down[d] \in {"no", "asked"} /\ down' = [down EXCEPT ![d] = "closing"]
      /\ UNCHANGED <<kind, built, pc, saw, version, up, restarting, working, toUnlink, pidFile>>
      /\ socketFile' \in Daemons \cup {None}
  BY DEF IInv, TypeOK, CloseServer, cliVars
<1>2. TypeOK'
  BY <1>1 DEF IInv, TypeOK
<1>3. Cut' /\ RestartSparesWork'
  BY <1>1 DEF IInv, TypeOK, Cut, RestartSparesWork
<1>4. NoAnswerAwaitedInVain'
  BY <1>1 DEF IInv, TypeOK, NoAnswerAwaitedInVain, Alive
<1>5. QED
  BY <1>2, <1>3, <1>4 DEF IInv

(* What ends a daemon's work tells its commands.                            *)
LEMMA CutOffKeeps ==
  ASSUME IInv, NEW d \in Daemons, StopEverything(d) \/ Kill(d) PROVE IInv'
<1>1. /\ pc' = [c \in Commands |-> IF c \in working[d] THEN "failed" ELSE pc[c]]
      /\ working' = [working EXCEPT ![d] = {}]
      /\ UNCHANGED <<kind, built, saw, version, up, restarting, socketFile, pidFile>>
  BY DEF StopEverything, Kill
<1>2. PICK to \in {"cleaning", "killed"}, files \in SUBSET {"pid", "socket"} :
        down' = [down EXCEPT ![d] = to] /\ toUnlink' = [toUnlink EXCEPT ![d] = files]
  BY DEF StopEverything, Kill
<1>3. TypeOK'
  BY <1>1, <1>2 DEF IInv, TypeOK
<1>4. Cut' /\ RestartSparesWork'
  BY <1>1, <1>2 DEF IInv, TypeOK, Cut, RestartSparesWork
<1>5. NoAnswerAwaitedInVain'
  BY <1>1, <1>2 DEF IInv, TypeOK, NoAnswerAwaitedInVain, Alive
<1>6. QED
  BY <1>3, <1>4, <1>5 DEF IInv

LEMMA UnlinkKeeps ==
  ASSUME IInv, NEW d \in Daemons, Unlink(d) PROVE IInv'
<1>1. /\ down[d] = "cleaning"
      /\ UNCHANGED <<kind, built, pc, saw, version, up, restarting, working>>
      /\ socketFile' \in Daemons \cup {None} /\ pidFile' \in Daemons \cup {None}
  BY DEF IInv, TypeOK, Unlink, cliVars
<1>2. PICK file \in toUnlink[d] : /\ toUnlink' = [toUnlink EXCEPT ![d] = @ \ {file}]
                                  /\ down' = [down EXCEPT ![d] = IF toUnlink[d] = {file} THEN "exited" ELSE @]
  BY DEF Unlink
<1>3. PICK to \in {"cleaning", "exited"} : down' = [down EXCEPT ![d] = to]
  BY <1>1, <1>2 DEF IInv, TypeOK
<1>4. TypeOK'
  BY <1>1, <1>2, <1>3 DEF IInv, TypeOK
<1>5. Cut' /\ RestartSparesWork'
  BY <1>1, <1>3 DEF IInv, TypeOK, Cut, RestartSparesWork
<1>6. NoAnswerAwaitedInVain'
  BY <1>1, <1>3 DEF IInv, TypeOK, Cut, NoAnswerAwaitedInVain, Alive
<1>7. QED
  BY <1>4, <1>5, <1>6 DEF IInv

LEMMA NextKeeps ==
  ASSUME IInv, [Next]_vars PROVE IInv'
<1>1. ASSUME NEW c \in Commands, CommandStep(c) PROVE IInv'
  BY <1>1, QuietStepsKeep, RequestRestartKeeps, SpawnKeeps, SendWorkKeeps, SendStopKeeps,
     FinishWorkKeeps DEF CommandStep
<1>2. ASSUME NEW d \in Daemons, DaemonStep(d) PROVE IInv'
  BY <1>2, StartKeeps, CloseServerKeeps, CutOffKeeps, UnlinkKeeps DEF DaemonStep
<1>3. CASE UNCHANGED vars
  BY <1>3 DEF IInv, TypeOK, Cut, RestartSparesWork, NoAnswerAwaitedInVain, Alive,
              vars, cliVars, daemonVars
<1>4. QED
  BY <1>1, <1>2, <1>3 DEF Next

-----------------------------------------------------------------------------
(* The inductive invariant holds in every reachable state.                  *)
THEOREM LifecycleInvariance == Spec => []IInv
<1>1. Init => IInv
  BY InitEstablishes
<1>2. IInv /\ [Next]_vars => IInv'
  BY NextKeeps
<1>3. QED
  BY <1>1, <1>2, PTL DEF Spec

(* The type invariant.                                                      *)
THEOREM LifecycleTypeCorrect == Spec => []TypeOK
<1>1. IInv => TypeOK
  BY DEF IInv
<1>2. QED
  BY <1>1, LifecycleInvariance, PTL

(* A daemon that has granted its restart runs nothing until it is gone.     *)
(* (runtime-handshake.ts, daemon.ts)                                        *)
THEOREM RestartsSpareWork == Spec => []RestartSparesWork
<1>1. IInv => RestartSparesWork
  BY DEF IInv
<1>2. QED
  BY <1>1, LifecycleInvariance, PTL

(* A command that waits for an answer waits for a daemon that is alive and  *)
(* knows of it.  (daemon.ts)                                                *)
THEOREM AnswersCome == Spec => []NoAnswerAwaitedInVain
<1>1. IInv => NoAnswerAwaitedInVain
  BY DEF IInv
<1>2. QED
  BY <1>1, LifecycleInvariance, PTL

(* A command has a daemon of its own build replaced only if it has found one *)
(* of that build unfit, whatever daemon answers its restart request.        *)
(* (cli/src/daemon.rs:54-68 and 1009-1121, daemon.ts:826-860)               *)
THEOREM OwnBuildIsSpared == Spec => OwnBuildReplacedOnlyIfUnfit
<1>1. ASSUME IInv, Next, NEW c \in Commands, NEW d \in Daemons,
             pc[c] = "restart", pc'[c] # "restart", restarting'[d] # restarting[d],
             version[d] = built[c]
      PROVE  saw[c] = built[c]
  <2>1. PICK b \in Commands : RequestRestart(b)
    BY <1>1 DEF Next, CommandStep, Look, Probe, AwaitExit, SpawnDaemon, AwaitReady, SendWork, SendStop,
                FinishWork, DaemonStep, ClearSocket, WritePid, Listen, CloseServer, StopEverything,
                Unlink, Kill, daemonVars
  <2>2. PICK e \in Daemons : MayRestart(b, e) /\ restarting' = [restarting EXCEPT ![e] = TRUE]
    BY <1>1, <2>1 DEF RequestRestart
  <2>3. e = d
    BY <1>1, <2>2 DEF IInv, TypeOK
  <2>4. b = c
    BY <1>1, <2>1 DEF IInv, TypeOK, RequestRestart, Go
  <2>5. QED
    BY <1>1, <2>2, <2>3, <2>4 DEF MayRestart
<1>2. IInv /\ [Next]_vars =>
        [\A c \in Commands, d \in Daemons :
           /\ pc[c] = "restart" /\ pc'[c] # "restart"
           /\ restarting'[d] # restarting[d]
           /\ version[d] = built[c]
           => saw[c] = built[c]]_vars
  BY <1>1
<1>3. QED
  BY <1>2, LifecycleInvariance, PTL DEF Spec, OwnBuildReplacedOnlyIfUnfit
-----------------------------------------------------------------------------
(* What else a command and a daemon hold to, which the refinement needs.    *)

(* A command that stops the daemon does nothing else.                       *)
Roles ==
  \A c \in Commands : kind[c] = "stop" => pc[c] \in {"look", "send", "awaitExit", "done", "failed"}

(* A command that a daemon works for waits for its answer, and for no other. *)
Homes ==
  \A c \in Commands, d \in Daemons :
    c \in working[d] => pc[c] = "working" /\ \A e \in Daemons : c \in working[e] => e = d

(* Nothing befalls a daemon before it is spawned.                           *)
Unspawned == \A d \in Daemons : up[d] = "unborn" => down[d] = "no" /\ ~restarting[d]

SInv == Roles /\ Homes /\ Unspawned

LEMMA CommandKeepsRoles ==
  ASSUME IInv, SInv, NEW c \in Commands, CommandStep(c) PROVE SInv'
<1>1. ASSUME pc[c] # "working", NEW place \in {"look", "probe", "restart", "awaitExit", "spawn",
               "awaitReady", "send", "done", "failed"},
             Go(c, place), UNCHANGED <<kind, working>>,
             kind[c] = "stop" => place \in {"look", "send", "awaitExit", "done", "failed"},
             \A d \in Daemons : up'[d] = "unborn" =>
               up[d] = "unborn" /\ down'[d] = down[d] /\ restarting'[d] = restarting[d]
      PROVE  SInv'
  BY <1>1 DEF IInv, TypeOK, SInv, Roles, Homes, Unspawned, Go
<1>2. CASE Look(c)
  BY <1>1, <1>2 DEF Look, daemonVars
<1>3. CASE Probe(c)
  BY <1>1, <1>3 DEF Probe, SInv, Roles, daemonVars
<1>4. CASE RequestRestart(c)
  <2>1. pc[c] = "restart" /\ kind[c] # "stop" /\ UNCHANGED <<kind, up, working>>
    BY <1>4 DEF RequestRestart, SInv, Roles
  <2>2. PICK place \in {"spawn", "awaitExit", "failed"} : Go(c, place)
    BY <1>4 DEF RequestRestart
  <2>3. \A d \in Daemons : up[d] = "unborn" => down'[d] = down[d] /\ restarting'[d] = restarting[d]
    <3>1. \/ UNCHANGED <<restarting, down>>
          \/ \E d \in Daemons : /\ up[d] = "bound" /\ restarting' = [restarting EXCEPT ![d] = TRUE]
                                /\ down' = [down EXCEPT ![d] = "asked"]
      BY <1>4 DEF RequestRestart, Serves, Reaches
    <3>2. QED
      BY <3>1 DEF IInv, TypeOK
  <2>4. QED
    BY <1>1, <2>1, <2>2, <2>3
<1>5. CASE AwaitExit(c)
  BY <1>1, <1>5 DEF AwaitExit, daemonVars
<1>6. CASE SpawnDaemon(c)
  <2>1. pc[c] = "spawn" /\ kind[c] # "stop" /\ Go(c, "awaitReady") /\ UNCHANGED <<kind, working, down, restarting>>
    BY <1>6 DEF SpawnDaemon, SInv, Roles
  <2>2. \A d \in Daemons : up'[d] = "unborn" => up[d] = "unborn"
    BY <1>6 DEF SpawnDaemon, IInv, TypeOK
  <2>3. QED
    BY <1>1, <2>1, <2>2
<1>7. CASE AwaitReady(c)
  BY <1>1, <1>7 DEF AwaitReady, SInv, Roles, daemonVars
<1>8. CASE SendWork(c)
  <2>1. pc[c] = "send" /\ kind[c] = "work" /\ UNCHANGED <<kind, up, down, restarting>>
    BY <1>8 DEF SendWork
  <2>2. CASE Go(c, "failed") /\ UNCHANGED working
    BY <1>1, <2>1, <2>2
  <2>3. ASSUME NEW d \in Daemons, working' = [working EXCEPT ![d] = @ \cup {c}], Go(c, "working")
        PROVE  SInv'
    <3>1. pc' = [pc EXCEPT ![c] = "working"] /\ \A e \in Daemons : c \notin working[e]
      BY <2>1, <2>3 DEF Go, SInv, Homes
    <3>2. Roles' /\ Unspawned'
      BY <2>1, <3>1 DEF IInv, TypeOK, SInv, Roles, Unspawned
    <3>3. Homes'
      BY <2>3, <3>1 DEF IInv, TypeOK, SInv, Homes
    <3>4. QED
      BY <3>2, <3>3 DEF SInv
  <2>4. QED
    BY <1>8, <2>2, <2>3 DEF SendWork
<1>9. CASE SendStop(c)
  <2>1. pc[c] = "send" /\ UNCHANGED <<kind, up, working, restarting>>
    BY <1>9 DEF SendStop
  <2>2. PICK place \in {"done", "awaitExit", "failed"} : Go(c, place)
    BY <1>9 DEF SendStop
  <2>3. \A d \in Daemons : up[d] = "unborn" => down'[d] = down[d]
    <3>1. \/ UNCHANGED down
          \/ \E d \in Daemons : up[d] = "bound" /\ down' = [down EXCEPT ![d] = IF @ = "no" THEN "asked" ELSE @]
      BY <1>9 DEF SendStop, Reaches
    <3>2. QED
      BY <3>1 DEF IInv, TypeOK
  <2>4. QED
    BY <1>1, <2>1, <2>2, <2>3
<1>10. ASSUME NEW d \in Daemons, FinishWork(c, d) PROVE SInv'
  <2>1. /\ c \in working[d] /\ working' = [working EXCEPT ![d] = @ \ {c}] /\ pc' = [pc EXCEPT ![c] = "done"]
        /\ UNCHANGED <<kind, up, down, restarting>>
    BY <1>10 DEF FinishWork, Go
  <2>2. Roles' /\ Unspawned'
    BY <2>1 DEF IInv, TypeOK, SInv, Roles, Unspawned
  <2>3. Homes'
    BY <2>1 DEF IInv, TypeOK, SInv, Homes
  <2>4. QED
    BY <2>2, <2>3 DEF SInv
<1>11. QED
  BY <1>2, <1>3, <1>4, <1>5, <1>6, <1>7, <1>8, <1>9, <1>10 DEF CommandStep

LEMMA DaemonKeepsRoles ==
  ASSUME IInv, SInv, NEW d \in Daemons, DaemonStep(d) PROVE SInv'
<1>1. ASSUME UNCHANGED <<kind, pc, working, restarting>>,
             \A e \in Daemons : up'[e] = "unborn" => up[e] = "unborn" /\ down'[e] = down[e]
      PROVE  SInv'
  BY <1>1 DEF SInv, Roles, Homes, Unspawned
<1>2. CASE ClearSocket(d) \/ WritePid(d) \/ Listen(d)
  <2>1. UNCHANGED <<kind, pc, working, restarting>> /\ up[d] # "unborn"
    BY <1>2 DEF ClearSocket, WritePid, Listen, cliVars, daemonVars
  <2>2. \A e \in Daemons : up'[e] = "unborn" => up[e] = "unborn" /\ down'[e] = down[e]
    BY <1>2 DEF ClearSocket, WritePid, Listen, IInv, TypeOK
  <2>3. QED
    BY <1>1, <2>1, <2>2
<1>3. CASE CloseServer(d)
  BY <1>1, <1>3 DEF CloseServer, Alive, IInv, TypeOK, cliVars
<1>4. CASE Unlink(d)
  BY <1>1, <1>4 DEF Unlink, IInv, TypeOK, SInv, Unspawned, cliVars
<1>5. CASE StopEverything(d) \/ Kill(d)
  <2>1. /\ pc' = [c \in Commands |-> IF c \in working[d] THEN "failed" ELSE pc[c]]
        /\ working' = [working EXCEPT ![d] = {}]
        /\ up[d] # "unborn" /\ UNCHANGED <<kind, up, restarting>>
    BY <1>5 DEF StopEverything, Kill, Alive, SInv, Unspawned
  <2>2. \A e \in Daemons : e # d => down'[e] = down[e]
    BY <1>5 DEF StopEverything, Kill, IInv, TypeOK
  <2>3. Roles' /\ Unspawned'
    BY <2>1, <2>2 DEF SInv, Roles, Unspawned
  <2>4. Homes'
    BY <2>1 DEF IInv, TypeOK, SInv, Homes
  <2>5. QED
    BY <2>3, <2>4 DEF SInv
<1>6. QED
  BY <1>2, <1>3, <1>4, <1>5 DEF DaemonStep

(* Both invariants together are inductive.                                  *)
THEOREM RolesInvariance == Spec => [](IInv /\ SInv)
<1>1. Init => IInv /\ SInv
  BY InitEstablishes DEF Init, SInv, Roles, Homes, Unspawned
<1>2. IInv /\ SInv /\ [Next]_vars => (IInv /\ SInv)'
  <2>1. ASSUME IInv, SInv, UNCHANGED vars PROVE SInv'
    BY <2>1 DEF SInv, Roles, Homes, Unspawned, vars, cliVars, daemonVars
  <2>2. QED
    BY <2>1, NextKeeps, CommandKeepsRoles, DaemonKeepsRoles DEF Next
<1>3. QED
  BY <1>1, <1>2, PTL DEF Spec

-----------------------------------------------------------------------------
(* How commands and daemons look to ServedCommands.                         *)

Fate == [c \in Commands |-> IF pc[c] \in {"working", "done", "failed"} THEN pc[c] ELSE "waiting"]
Life == [d \in Daemons |->
           IF up[d] = "unborn" THEN "absent"
           ELSE IF down[d] \in {"cleaning", "exited", "killed"} THEN "over"
           ELSE IF down[d] = "closing" THEN "ending"
           ELSE IF restarting[d] THEN "promised" ELSE "serving"]

(* A command goes on, gives up or has stopped the daemon.                   *)
LEMMA GoingOnIsPromised ==
  ASSUME IInv, NEW c \in Commands, pc[c] \notin {"working", "done", "failed"},
         NEW place \in {"look", "probe", "restart", "awaitExit", "spawn", "awaitReady", "send",
                        "done", "failed"},
         Go(c, place), place = "done" => kind[c] = "stop",
         UNCHANGED <<kind, built, working, version>>, Life' = Life
  PROVE  [Promise!Next]_(Promise!absVars)
<1>1. Fate[c] = "waiting"
  BY DEF Fate
<1>2. Fate' = [Fate EXCEPT ![c] = IF place \in {"done", "failed"} THEN place ELSE "waiting"]
  BY DEF Go, Fate, IInv, TypeOK
<1>3. CASE place \notin {"done", "failed"}
  <2>1. Fate' = Fate
    BY <1>1, <1>2, <1>3 DEF Fate
  <2>2. QED
    BY <2>1 DEF Promise!absVars, Fate, Life
<1>4. CASE place = "failed"
  <2>1. Promise!GiveUp(c)
    BY <1>1, <1>2, <1>4 DEF Promise!GiveUp, Promise!Ends, Fate, Life
  <2>2. QED
    BY <2>1 DEF Promise!Next
<1>5. CASE place = "done"
  <2>1. Promise!Stopped(c)
    BY <1>1, <1>2, <1>5 DEF Promise!Stopped, Promise!Waits, Promise!Ends, Fate, Life
  <2>2. QED
    BY <2>1 DEF Promise!Next
<1>6. QED
  BY <1>3, <1>4, <1>5

LEMMA CommandKeepsPromise ==
  ASSUME IInv, SInv, NEW c \in Commands, CommandStep(c)
  PROVE  [Promise!Next]_(Promise!absVars)
<1>1. UNCHANGED <<kind, built>>
  BY DEF CommandStep, Look, Probe, RequestRestart, AwaitExit, SpawnDaemon, AwaitReady, SendWork,
         SendStop, FinishWork
<1>2. CASE Look(c) \/ Probe(c) \/ AwaitExit(c) \/ AwaitReady(c)
  <2>1. UNCHANGED <<working, version>> /\ Life' = Life /\ pc[c] \notin {"working", "done", "failed"}
    BY <1>2 DEF Look, Probe, AwaitExit, AwaitReady, daemonVars, Life
  <2>2. PICK place \in {"look", "probe", "restart", "awaitExit", "spawn", "awaitReady", "send",
                        "done", "failed"} : Go(c, place) /\ (place = "done" => kind[c] = "stop")
    BY <1>2 DEF Look, Probe, AwaitExit, AwaitReady
  <2>3. QED
    BY <1>1, <2>1, <2>2, GoingOnIsPromised
<1>3. CASE RequestRestart(c)
  <2>1. pc[c] = "restart" /\ kind[c] = "work" /\ UNCHANGED <<up, version, working>>
    BY <1>3 DEF RequestRestart, IInv, TypeOK, SInv, Roles
  <2>2. PICK place \in {"spawn", "awaitExit", "failed"} :
          /\ Go(c, place)
          /\ \/ UNCHANGED <<restarting, down>>
             \/ \E d \in Daemons : /\ Serves(d) /\ MayRestart(c, d) /\ place # "failed"
                                   /\ restarting' = [restarting EXCEPT ![d] = TRUE]
                                   /\ down' = [down EXCEPT ![d] = "asked"]
    BY <1>3 DEF RequestRestart
  <2>3. CASE UNCHANGED <<restarting, down>>
    BY <1>1, <2>1, <2>2, <2>3, GoingOnIsPromised DEF Life
  <2>4. ASSUME NEW d \in Daemons, Serves(d), MayRestart(c, d),
               restarting' = [restarting EXCEPT ![d] = TRUE], down' = [down EXCEPT ![d] = "asked"],
               place # "failed"
        PROVE  Promise!Replace(c, d)
    <3>1. Life[d] = "serving" /\ working[d] = {}
      BY <2>4 DEF Serves, Reaches, Alive, MayRestart, Life
    <3>2. Life' = [Life EXCEPT ![d] = "promised"]
      BY <2>1, <2>4 DEF Serves, Reaches, Life, IInv, TypeOK
    <3>3. Fate' = Fate /\ Fate[c] = "waiting"
      BY <2>1, <2>2, <2>4 DEF Go, Fate, IInv, TypeOK
    <3>4. QED
      BY <2>1, <3>1, <3>2, <3>3 DEF Promise!Replace, Promise!Waits, Promise!Becomes, Fate, Life
  <2>5. QED
    BY <1>1, <2>2, <2>3, <2>4 DEF Promise!Next
<1>4. CASE SpawnDaemon(c)
  <2>1. /\ pc[c] = "spawn" /\ kind[c] = "work" /\ pc' = [pc EXCEPT ![c] = "awaitReady"]
        /\ UNCHANGED <<down, restarting, working>>
    BY <1>4 DEF SpawnDaemon, Go, IInv, TypeOK, SInv, Roles
  <2>2. PICK d \in Daemons : /\ up[d] = "unborn" /\ up' = [up EXCEPT ![d] = "born"]
                             /\ version' = [version EXCEPT ![d] = built[c]]
    BY <1>4 DEF SpawnDaemon
  <2>3. Life[d] = "absent" /\ Life' = [Life EXCEPT ![d] = "serving"]
    BY <2>1, <2>2 DEF Life, IInv, TypeOK, SInv, Unspawned
  <2>4. Fate' = Fate /\ Fate[c] = "waiting"
    BY <2>1 DEF Fate, IInv, TypeOK
  <2>5. Promise!Spawn(c, d)
    BY <2>1, <2>2, <2>3, <2>4 DEF Promise!Spawn, Promise!Waits, Promise!Becomes, Fate, Life
  <2>6. QED
    BY <1>1, <2>5 DEF Promise!Next
<1>5. CASE SendWork(c)
  <2>1. pc[c] = "send" /\ kind[c] = "work" /\ UNCHANGED <<version, up, down, restarting>>
    BY <1>5 DEF SendWork
  <2>2. Life' = Life
    BY <2>1 DEF Life
  <2>3. CASE Go(c, "failed") /\ UNCHANGED working
    BY <1>1, <2>1, <2>2, <2>3, GoingOnIsPromised
  <2>4. ASSUME NEW d \in Daemons, MayBegin(d), working' = [working EXCEPT ![d] = @ \cup {c}],
               Go(c, "working")
        PROVE  Promise!Take(c, d)
    <3>1. Fate[c] = "waiting" /\ Fate' = [Fate EXCEPT ![c] = "working"]
      BY <2>1, <2>4 DEF Go, Fate, IInv, TypeOK
    <3>2. Life[d] = "serving"
      BY <2>4 DEF MayBegin, Serves, Reaches, Alive, Life
    <3>3. QED
      BY <2>1, <2>2, <2>4, <3>1, <3>2 DEF Promise!Take, Promise!Waits, Promise!Ends, Fate, Life
  <2>5. QED
    BY <1>1, <1>5, <2>3, <2>4 DEF SendWork, Promise!Next
<1>6. CASE SendStop(c)
  <2>1. pc[c] = "send" /\ kind[c] = "stop" /\ UNCHANGED <<version, up, restarting, working>>
    BY <1>6 DEF SendStop
  <2>2. PICK place \in {"done", "awaitExit", "failed"} : Go(c, place)
    BY <1>6 DEF SendStop
  <2>3. Life' = Life
    <3>1. \A d \in Daemons : down'[d] = down[d] \/ (down[d] = "no" /\ down'[d] = "asked")
      BY <1>6 DEF SendStop, IInv, TypeOK
    <3>2. QED
      BY <2>1, <3>1 DEF Life
  <2>4. QED
    BY <1>1, <2>1, <2>2, <2>3, GoingOnIsPromised
<1>7. ASSUME NEW d \in Daemons, FinishWork(c, d) PROVE Promise!Answer(c, d)
  <2>1. /\ c \in working[d] /\ working' = [working EXCEPT ![d] = @ \ {c}] /\ pc' = [pc EXCEPT ![c] = "done"]
        /\ UNCHANGED <<version, up, down, restarting>>
    BY <1>7 DEF FinishWork, Go
  <2>2. pc[c] = "working" /\ Alive(d)
    BY <2>1 DEF SInv, Homes, IInv, NoAnswerAwaitedInVain
  <2>3. Life[d] \in {"serving", "ending"} /\ Life' = Life
    BY <2>1, <2>2 DEF Alive, Life, IInv, RestartSparesWork, Cut
  <2>4. Fate[c] = "working" /\ Fate' = [Fate EXCEPT ![c] = "done"]
    BY <2>1, <2>2 DEF Fate, IInv, TypeOK
  <2>5. QED
    BY <2>1, <2>3, <2>4 DEF Promise!Answer, Promise!Ends, Fate, Life
<1>8. QED
  BY <1>1, <1>2, <1>3, <1>4, <1>5, <1>6, <1>7 DEF CommandStep, Promise!Next

LEMMA DaemonKeepsPromise ==
  ASSUME IInv, SInv, NEW d \in Daemons, DaemonStep(d)
  PROVE  [Promise!Next]_(Promise!absVars)
<1>1. UNCHANGED <<kind, built, version, restarting>>
  BY DEF DaemonStep, ClearSocket, WritePid, Listen, CloseServer, StopEverything, Unlink, Kill,
         cliVars, daemonVars
<1>2. CASE ClearSocket(d) \/ WritePid(d) \/ Listen(d)
  <2>1. UNCHANGED <<pc, working>> /\ up[d] # "unborn"
    BY <1>2 DEF ClearSocket, WritePid, Listen, cliVars, daemonVars
  <2>2. \A e \in Daemons : /\ up'[e] = "unborn" <=> up[e] = "unborn"
                           /\ down'[e] = down[e] \/ (down[e] = "no" /\ down'[e] = "asked")
    BY <1>2 DEF ClearSocket, WritePid, Listen, IInv, TypeOK
  <2>3. Life' = Life /\ Fate' = Fate
    BY <1>1, <2>1, <2>2 DEF Life, Fate
  <2>4. QED
    BY <1>1, <2>1, <2>3 DEF Promise!absVars, Life, Fate
<1>3. CASE CloseServer(d)
  <2>1. /\ Alive(d) /\ down[d] \in {"no", "asked"} /\ down' = [down EXCEPT ![d] = "closing"]
        /\ UNCHANGED <<pc, up, working>>
    BY <1>3 DEF CloseServer, cliVars
  <2>2. Life[d] \in {"serving", "promised"} /\ Life' = [Life EXCEPT ![d] = "ending"] /\ Fate' = Fate
    BY <1>1, <2>1 DEF Alive, Life, Fate, IInv, TypeOK
  <2>3. Promise!End(d)
    BY <1>1, <2>1, <2>2 DEF Promise!End, Promise!Becomes, Life, Fate
  <2>4. QED
    BY <1>1, <2>3 DEF Promise!Next
<1>4. CASE StopEverything(d) \/ Kill(d)
  <2>1. /\ pc' = [c \in Commands |-> IF c \in working[d] THEN "failed" ELSE pc[c]]
        /\ working' = [working EXCEPT ![d] = {}]
        /\ up[d] # "unborn" /\ UNCHANGED up /\ down[d] \notin {"exited", "killed"}
    BY <1>4 DEF StopEverything, Kill, Alive, SInv, Unspawned
  <2>2. PICK to \in {"cleaning", "killed"} : down' = [down EXCEPT ![d] = to]
    BY <1>4 DEF StopEverything, Kill
  <2>3. Life' = [Life EXCEPT ![d] = "over"]
    BY <1>1, <2>1, <2>2 DEF Life, IInv, TypeOK
  <2>4. Fate' = [c \in Commands |-> IF c \in working[d] THEN "failed" ELSE Fate[c]]
    BY <2>1 DEF Fate
  <2>5. CASE down[d] # "cleaning"
    <3>1. Life[d] \in {"serving", "promised", "ending"}
      BY <2>1, <2>5 DEF Life
    <3>2. Promise!Cut(d)
      BY <1>1, <2>1, <2>3, <2>4, <3>1 DEF Promise!Cut, Promise!Becomes, Life, Fate
    <3>3. QED
      BY <1>1, <3>2 DEF Promise!Next
  <2>6. CASE down[d] = "cleaning"
    <3>1. working[d] = {} /\ Life[d] = "over"
      BY <2>1, <2>6 DEF IInv, Cut, Life
    <3>2. working' = working
      BY <2>1, <3>1 DEF IInv, TypeOK
    <3>3. Life' = Life
      BY <2>3, <3>1 DEF Life
    <3>4. Fate' = Fate
      BY <2>4, <3>1 DEF Fate
    <3>5. QED
      BY <1>1, <3>2, <3>3, <3>4 DEF Promise!absVars, Life, Fate
  <2>7. QED
    BY <2>5, <2>6
<1>5. CASE Unlink(d)
  <2>1. UNCHANGED <<pc, up, working>> /\ down[d] = "cleaning"
    BY <1>5 DEF Unlink, cliVars
  <2>2. down' = down \/ down' = [down EXCEPT ![d] = "exited"]
    BY <1>5 DEF Unlink, IInv, TypeOK
  <2>3. Life' = Life /\ Fate' = Fate
    BY <1>1, <2>1, <2>2 DEF Life, Fate, IInv, TypeOK
  <2>4. QED
    BY <1>1, <2>1, <2>3 DEF Promise!absVars, Life, Fate
<1>6. QED
  BY <1>2, <1>3, <1>4, <1>5 DEF DaemonStep

(* Work is done once, by one daemon, and lost only to the end of it; a      *)
(* daemon gives way only to work that waits and while it runs nothing.      *)
(* (cli/src/daemon.rs, daemon.ts, runtime-handshake.ts)                     *)
THEOREM LifecycleRefinement == Spec => ImplementsServedCommands
<1>1. Init => Promise!Init
  BY DEF Init, Promise!Init
<1>2. IInv /\ SInv /\ [Next]_vars => [Promise!Next]_(Promise!absVars)
  <2>1. ASSUME UNCHANGED vars PROVE UNCHANGED Promise!absVars
    BY <2>1 DEF vars, cliVars, daemonVars, Promise!absVars
  <2>2. QED
    BY <2>1, CommandKeepsPromise, DaemonKeepsPromise DEF Next
<1>3. QED
  BY <1>1, <1>2, RolesInvariance, PTL DEF Spec, ImplementsServedCommands, Promise!Spec
===============================================================================
