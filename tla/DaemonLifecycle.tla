--------------------------- MODULE DaemonLifecycle ---------------------------
(***************************************************************************)
(* How commands find, start, replace and stop the daemon.  The command line *)
(* side is ensure_daemon, `stop` and the request that follows               *)
(* (cli/src/daemon.rs, cli/src/main.rs); the daemon side is start, shutdown, *)
(* handleRestart and the operation tracker (daemon/src/daemon.ts,           *)
(* daemon/src/runtime-handshake.ts).  They share the socket path and the    *)
(* PID file.  Endpoints are Unix sockets: named pipes leave no file behind. *)
(*                                                                         *)
(* Every exchange of a command opens a connection of its own, so whatever   *)
(* answers at the path may change between two of them; and any of them may  *)
(* fail, refused or cut off by the daemon.                                  *)
(***************************************************************************)
EXTENDS Naturals

CONSTANTS
  Commands,     \* invocations of the command line
  Versions,     \* builds of the command line, each with its daemon's hash
  NoVersion,    \* the build of a daemon that does not exist yet
  MaxDaemons    \* bound: how many daemon processes are ever spawned

ASSUME MaxDaemonsAssumption == MaxDaemons \in Nat \ {0}

Daemons == 1..MaxDaemons   \* numbered in the order they are spawned
None == 0

VARIABLES
  kind,        \* "work" or "stop", per command
  built,       \* the build each command comes from
  pc,          \* how far a command got
  saw,         \* the build of the daemon a command wants restarted
  version,     \* the build a daemon was spawned by, i.e. its process hash
  up,          \* how far a daemon's start() got
  down,        \* how far its shutdown() got
  restarting,  \* has it reserved its restart (#restartPending)?
  working,     \* the commands whose tracked operation it runs
  toUnlink,    \* files its shutdown has still to remove
  socketFile,  \* the daemon bound to the socket path, if the path exists
  pidFile      \* the daemon the PID file names

cliVars == <<kind, built, pc, saw>>
daemonVars == <<version, up, down, restarting, working, toUnlink>>
vars == <<cliVars, daemonVars, socketFile, pidFile>>

TypeOK ==
  /\ kind \in [Commands -> {"work", "stop"}]
  /\ built \in [Commands -> Versions]
  /\ pc \in [Commands -> {"look", "probe", "restart", "awaitExit", "spawn",
                          "awaitReady", "send", "working", "done", "failed"}]
  /\ saw \in [Commands -> Versions \cup {NoVersion}]
  /\ version \in [Daemons -> Versions \cup {NoVersion}]
  /\ \A d \in Daemons : up[d] # "unborn" => version[d] \in Versions
  /\ up \in [Daemons -> {"unborn", "born", "cleared", "named", "bound", "refused"}]
  /\ down \in [Daemons -> {"no", "asked", "closing", "cleaning", "exited", "killed"}]
  /\ restarting \in [Daemons -> BOOLEAN]
  /\ working \in [Daemons -> SUBSET Commands]
  /\ toUnlink \in [Daemons -> SUBSET {"pid", "socket"}]
  /\ socketFile \in Daemons \cup {None}
  /\ pidFile \in Daemons \cup {None}

Init ==
  /\ kind \in [Commands -> {"work", "stop"}]
  /\ built \in [Commands -> Versions]
  /\ pc = [c \in Commands |-> "look"]
  /\ saw = [c \in Commands |-> NoVersion]
  /\ version = [d \in Daemons |-> NoVersion]
  /\ up = [d \in Daemons |-> "unborn"]
  /\ down = [d \in Daemons |-> "no"]
  /\ restarting = [d \in Daemons |-> FALSE]
  /\ working = [d \in Daemons |-> {}]
  /\ toUnlink = [d \in Daemons |-> {}]
  /\ socketFile = None
  /\ pidFile = None

-----------------------------------------------------------------------------
(* A process that has not ended, and one that has closed no server.         *)
Alive(d) == up[d] # "unborn" /\ down[d] \notin {"exited", "killed"}

(* connect_to_daemon succeeds on daemon `d`: the path leads to its socket   *)
(* and the socket still listens.                                            *)
Reaches(d) == socketFile = d /\ up[d] = "bound" /\ Alive(d)
Unreachable == \A d \in Daemons : ~Reaches(d)

(* A daemon answers requests until it begins to shut down; from then on it  *)
(* refuses them all, or hangs up at once.                                   *)
Serves(d) == Reaches(d) /\ down[d] \in {"no", "asked"}

Go(c, place) == pc' = [pc EXCEPT ![c] = place]

(* ensure_daemon, or `stop`, sees whether anybody listens.                  *)
Look(c) ==
  /\ pc[c] = "look"
  /\ IF Unreachable
     THEN Go(c, IF kind[c] = "stop" THEN "done" ELSE "spawn")
     ELSE Go(c, IF kind[c] = "stop" THEN "send" ELSE "probe")
  /\ UNCHANGED <<kind, built, saw, daemonVars, socketFile, pidFile>>

(* probe_daemon, then: a compatible daemon is used, another build is asked  *)
(* to restart, and so is a daemon of the same build that is unfit for other *)
(* reasons (a package of another version, a report that is incomplete); one *)
(* that does not answer is taken for a legacy daemon.                       *)
Probe(c) ==
  /\ pc[c] = "probe"
  /\ \/ \E d \in Daemons :
          /\ Serves(d)
          /\ \/ version[d] = built[c] /\ Go(c, "send") /\ UNCHANGED saw
             \/ Go(c, "restart") /\ saw' = [saw EXCEPT ![c] = version[d]]
     \/ Go(c, "failed") /\ UNCHANGED saw
  /\ UNCHANGED <<kind, built, daemonVars, socketFile, pidFile>>

(* Slip: the daemon does not compare the hash it is asked to replace.       *)
MayRestartAnyBuild(c, d) ==
  /\ ~restarting[d]
  /\ working[d] = {}

(* request_idle_restart, answered by handleRestart: granted if the daemon   *)
(* is still the build that was probed, runs nothing and has not granted it  *)
(* before.                                                                  *)
MayRestart(c, d) ==
  /\ version[d] = saw[c]
  /\ ~restarting[d]
  /\ working[d] = {}

RequestRestart(c) ==
  /\ pc[c] = "restart"
  /\ \/ \E d \in Daemons :
          /\ Serves(d)
          /\ MayRestart(c, d)
          /\ restarting' = [restarting EXCEPT ![d] = TRUE]
          /\ down' = [down EXCEPT ![d] = "asked"]
          /\ Go(c, IF pidFile = None THEN "spawn" ELSE "awaitExit")
     \/ Go(c, "failed") /\ UNCHANGED <<restarting, down>>
  /\ saw' = [saw EXCEPT ![c] = NoVersion]
  /\ UNCHANGED <<kind, built, version, up, working, toUnlink, socketFile, pidFile>>

(* wait_for_daemon_exit takes an endpoint that does not answer for a daemon *)
(* that has exited.  It gives up after a while.                             *)
AwaitExit(c) ==
  /\ pc[c] = "awaitExit"
  /\ \/ Unreachable /\ Go(c, IF kind[c] = "stop" THEN "done" ELSE "spawn")
     \/ Go(c, "failed")
  /\ UNCHANGED <<kind, built, saw, daemonVars, socketFile, pidFile>>

(* Slip: the new process is started from the build that was running.        *)
SpawnWhatWasSeen(c) ==
  /\ pc[c] = "spawn"
  /\ \E d \in Daemons :
       /\ up[d] = "unborn"
       /\ \A e \in 1..d-1 : up[e] # "unborn"
       /\ up' = [up EXCEPT ![d] = "born"]
       /\ version' = [version EXCEPT ![d] = saw[c]]
  /\ Go(c, "awaitReady")
  /\ UNCHANGED <<kind, built, saw, down, restarting, working, toUnlink, socketFile, pidFile>>

(* spawn_daemon: a new process, of the command's own build.                 *)
SpawnDaemon(c) ==
  /\ pc[c] = "spawn"
  /\ \E d \in Daemons :
       /\ up[d] = "unborn"
       /\ \A e \in 1..d-1 : up[e] # "unborn"
       /\ up' = [up EXCEPT ![d] = "born"]
       /\ version' = [version EXCEPT ![d] = built[c]]
  /\ Go(c, "awaitReady")
  /\ UNCHANGED <<kind, built, saw, down, restarting, working, toUnlink, socketFile, pidFile>>

(* The polls of ensure_daemon after the spawn.  A daemon of another build   *)
(* or one that hangs up ends them, and so does time.                        *)
AwaitReady(c) ==
  /\ pc[c] = "awaitReady"
  /\ \/ \E d \in Daemons :
          /\ Serves(d)
          /\ version[d] = built[c]
          /\ Go(c, "send")
     \/ Go(c, "failed")
  /\ UNCHANGED <<kind, built, saw, daemonVars, socketFile, pidFile>>

(* Slip: operations begin while a restart is pending.                       *)
MayBeginBeforeRestart(d) == Serves(d)

(* The command's request reaches a daemon.  Work begins an operation unless *)
(* a restart is pending; `stop` is always taken.                            *)
MayBegin(d) == Serves(d) /\ ~restarting[d]

SendWork(c) ==
  /\ pc[c] = "send"
  /\ kind[c] = "work"
  /\ \/ \E d \in Daemons :
          /\ MayBegin(d)
          /\ working' = [working EXCEPT ![d] = @ \cup {c}]
          /\ Go(c, "working")
     \/ Go(c, "failed") /\ UNCHANGED working
  /\ UNCHANGED <<kind, built, saw, version, up, down, restarting, toUnlink, socketFile, pidFile>>

SendStop(c) ==
  /\ pc[c] = "send"
  /\ kind[c] = "stop"
  /\ \/ \E d \in Daemons :
          /\ Reaches(d)
          /\ down' = [down EXCEPT ![d] = IF @ = "no" THEN "asked" ELSE @]
          /\ Go(c, IF pidFile = None THEN "done" ELSE "awaitExit")
     \/ Go(c, "failed") /\ UNCHANGED down
  /\ UNCHANGED <<kind, built, saw, version, up, restarting, working, toUnlink, socketFile, pidFile>>

(* The operation is over, in whichever way, and the answer is written.      *)
FinishWork(c, d) ==
  /\ c \in working[d]
  /\ working' = [working EXCEPT ![d] = @ \ {c}]
  /\ Go(c, "done")
  /\ UNCHANGED <<kind, built, saw, version, up, down, restarting, toUnlink,
                 socketFile, pidFile>>

-----------------------------------------------------------------------------
(* start(): the socket path is cleared of whatever is there,                *)
ClearSocket(d) ==
  /\ up[d] = "born"
  /\ Alive(d)
  /\ up' = [up EXCEPT ![d] = "cleared"]
  /\ socketFile' = None
  /\ UNCHANGED <<cliVars, version, down, restarting, working, toUnlink, pidFile>>

(* the PID is written,                                                      *)
WritePid(d) ==
  /\ up[d] = "cleared"
  /\ Alive(d)
  /\ up' = [up EXCEPT ![d] = "named"]
  /\ pidFile' = d
  /\ UNCHANGED <<cliVars, version, down, restarting, working, toUnlink, socketFile>>

(* and the path is bound, unless it exists again.                           *)
Listen(d) ==
  /\ up[d] = "named"
  /\ Alive(d)
  /\ IF socketFile = None
     THEN /\ up' = [up EXCEPT ![d] = "bound"]
          /\ socketFile' = d
          /\ UNCHANGED down
     ELSE /\ up' = [up EXCEPT ![d] = "refused"]
          /\ down' = [down EXCEPT ![d] = IF @ = "no" THEN "asked" ELSE @]
          /\ UNCHANGED socketFile
  /\ UNCHANGED <<cliVars, version, restarting, working, toUnlink, pidFile>>

(* shutdown() begins, after an answer that promised it or at once on a       *)
(* signal or a fatal error.  A server that listens is closed, and closing it *)
(* removes the path it was bound to.  A start() under way goes on.           *)
CloseServer(d) ==
  /\ Alive(d)
  /\ down[d] \in {"no", "asked"}
  /\ down' = [down EXCEPT ![d] = "closing"]
  /\ socketFile' = IF up[d] = "bound" THEN None ELSE socketFile
  /\ UNCHANGED <<cliVars, version, up, restarting, working, toUnlink, pidFile>>

(* Slip: the connections of the commands are left open.                     *)
StopWithoutHangingUp(d) ==
  /\ down[d] = "closing"
  /\ down' = [down EXCEPT ![d] = "cleaning"]
  /\ working' = [working EXCEPT ![d] = {}]
  /\ toUnlink' = [toUnlink EXCEPT ![d] = {"pid", "socket"}]
  /\ UNCHANGED <<cliVars, version, up, restarting, socketFile, pidFile>>

(* Recordings are finalized, browsers stopped and connections closed: what  *)
(* still ran is lost to its command.                                        *)
StopEverything(d) ==
  /\ down[d] = "closing"
  /\ down' = [down EXCEPT ![d] = "cleaning"]
  /\ pc' = [c \in Commands |-> IF c \in working[d] THEN "failed" ELSE pc[c]]
  /\ working' = [working EXCEPT ![d] = {}]
  /\ toUnlink' = [toUnlink EXCEPT ![d] = {"pid", "socket"}]
  /\ UNCHANGED <<kind, built, saw, version, up, restarting, socketFile, pidFile>>

(* The two files are removed, in either order, whoever they belong to, and  *)
(* the process exits.                                                       *)
Unlink(d) ==
  /\ down[d] = "cleaning"
  /\ \E file \in toUnlink[d] :
       /\ toUnlink' = [toUnlink EXCEPT ![d] = @ \ {file}]
       /\ down' = [down EXCEPT ![d] = IF toUnlink[d] = {file} THEN "exited" ELSE @]
       /\ pidFile' = IF file = "pid" THEN None ELSE pidFile
       /\ socketFile' = IF file = "socket" THEN None ELSE socketFile
  /\ UNCHANGED <<cliVars, version, up, restarting, working>>

(* The process is killed: its files stay, its commands see the connection   *)
(* break.                                                                   *)
Kill(d) ==
  /\ Alive(d)
  /\ down' = [down EXCEPT ![d] = "killed"]
  /\ pc' = [c \in Commands |-> IF c \in working[d] THEN "failed" ELSE pc[c]]
  /\ working' = [working EXCEPT ![d] = {}]
  /\ toUnlink' = [toUnlink EXCEPT ![d] = {}]
  /\ UNCHANGED <<kind, built, saw, version, up, restarting, socketFile, pidFile>>

CommandStep(c) ==
  \/ Look(c) \/ Probe(c) \/ RequestRestart(c) \/ AwaitExit(c) \/ SpawnDaemon(c)
  \/ AwaitReady(c) \/ SendWork(c) \/ SendStop(c)
  \/ \E d \in Daemons : FinishWork(c, d)

DaemonStep(d) ==
  \/ ClearSocket(d) \/ WritePid(d) \/ Listen(d)
  \/ CloseServer(d) \/ StopEverything(d) \/ Unlink(d) \/ Kill(d)

Next ==
  \/ \E c \in Commands : CommandStep(c)
  \/ \E d \in Daemons : DaemonStep(d)

Spec == Init /\ [][Next]_vars

-----------------------------------------------------------------------------
(* A daemon that has granted its restart runs nothing, until it is gone: no *)
(* work in flight is killed by a change of build.                           *)
RestartSparesWork ==
  \A d \in Daemons : restarting[d] => working[d] = {}

(* However the daemon at the path changes between the probe and the restart *)
(* request, a daemon of a command's own build is replaced only if the       *)
(* command has found a daemon of that build unfit: one that has taken the   *)
(* place of another build in the meantime is left alone.                    *)
OwnBuildReplacedOnlyIfUnfit ==
  [][\A c \in Commands, d \in Daemons :
       /\ pc[c] = "restart" /\ pc'[c] # "restart"
       /\ restarting'[d] # restarting[d]
       /\ version[d] = built[c]
       => saw[c] = built[c]]_vars

(* A command that waits for an answer waits for a daemon that is alive and  *)
(* knows of it.                                                             *)
NoAnswerAwaitedInVain ==
  \A c \in Commands :
    pc[c] = "working" => \E d \in Daemons : Alive(d) /\ c \in working[d]

(* The skill's guide says the daemon keeps running between commands, which  *)
(* is why browsers and pages stay alive: a daemon that listens and was not  *)
(* asked to stop is the one commands reach.                                 *)
DaemonStaysReachable ==
  \A d \in Daemons :
    up[d] = "bound" /\ down[d] = "no" => Reaches(d)

(* A command waits until its work is taken, and a daemon that has hung up   *)
(* on everybody is over.                                                    *)
Promise == INSTANCE ServedCommands WITH
  fate <- [c \in Commands |-> IF pc[c] \in {"working", "done", "failed"} THEN pc[c] ELSE "waiting"],
  life <- [d \in Daemons |->
             IF up[d] = "unborn" THEN "absent"
             ELSE IF down[d] \in {"cleaning", "exited", "killed"} THEN "over"
             ELSE IF down[d] = "closing" THEN "ending"
             ELSE IF restarting[d] THEN "promised" ELSE "serving"]

(* Work is done once, by one daemon, and lost only to the end of that       *)
(* daemon; a daemon is of the build that started it, and gives way only to  *)
(* work that waits and while it runs nothing: whoever listens at the path   *)
(* at each of the exchanges of a command, and in whatever order daemons     *)
(* write and remove the files.  (cli/src/daemon.rs, daemon.ts)              *)
ImplementsServedCommands == Promise!Spec
=============================================================================
