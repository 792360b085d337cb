# Specifications of dev-browser

dev-browser lets programs drive browsers from the command line. A Rust command line (`cli/src`) finds or
starts a Node daemon and sends it one request per line over a local socket; the daemon (`daemon/src`) keeps
the browsers, their pages and everything known about them between calls, and works through Playwright.
These modules specify the parts of it whose correctness depends on the order in which things happen.

## The system

| Part | State it keeps | Operations | What makes it hard |
|---|---|---|---|
| Browser and page lock (`lock.ts`) | per browser: is it held as a whole, which pages are held, a queue | `withBrowserLock`, `withPageLock`, the end of an action | wake-ups, order of conflicting requests, starvation |
| Browser registry (`browser-manager.ts`) | name → browser and its context | `ensureBrowser`, `connectBrowser`, `autoConnect`, `stopBrowser`, `stopAll`, disconnection | connection attempts outlive their deadline; browsers go away; reuse against replacement |
| Named pages and targets (`browser-manager.ts`) | name → page, target → page | `getPage`, `listPages`, `closePage`, popups, closing pages | a page that was attached is told from the others by being new; calls are serialized by nothing |
| Daemon life cycle (`daemon.ts`, `runtime-handshake.ts`, `cli/src/daemon.rs`) | socket path, PID file, operations in flight, pending restart | probe, idle restart, spawn, `stop`, `start()`, `shutdown()`, signals | two commands or two daemons at once; every exchange is a new connection |
| Video recordings (`video-recorder.ts`) | page → running recording, saving in progress, cap not yet told | start, chapter, stop, finalize all; timer, page close | timers and shutdown run under no lock; check and registration are several waits apart |
| Interactive actions (`interactive-actions.ts`, `actions/`) | none of its own; a journal per action | observe, confirm, click, type, navigate, upload, find | stale observations, retries, popups, leases |
| Confirmation tokens (`confirmation-tokens.ts`) | token → scope and expiry | issue, consume, reset, clear a page | a token is burned on first use, expires, and is bound to what was observed |
| Page leases (`sessions.ts`) | page → owner and expiry | open, renew, close, assert | opened under no lock |
| Retry policy, wait engine (`retry-policy.ts`, `wait-engine.ts`) | listeners of one action, a capture in the page shared by several | wait for effects; decide a retry | late effects; two actions in one document |
| Page states and refs (`page-state.ts`, `ref-state.ts`, `frame-registry.ts`) | page → last hundred states | record, revalidate, resolve | validation spans a wait |
| Selective CDP transport (`selective-cdp-transport.ts`) | pending commands, awaited attach events, held-back replies | send, attach, close | answers and events cross |
| Traces (`trace-store.ts`) | trace ids in use, a queue of saves, LAST | allocate, take a screenshot, save, clean up | clean-up against saves and crashes |
| Batches (`batch-actions.ts`) | none | run steps one after the other | nothing that outlives a batch |
| Script sandbox (`sandbox/`) | one interpreter per script, pending commands, an inbox, anonymous pages | run a script under the whole-browser lock, dispose | one loop drives script, answers, events and timeout |
| Perception, redaction, protocol, artifacts, command-line parsing | hardly any | pure functions, files | data rather than control |

A request takes this path: the command line ensures a daemon (life cycle), opens a connection and writes the
request; the daemon counts it as an operation, prepares the browser under the whole-browser lock (registry),
gives that lock back and takes the lock of the page (lock), then acts (actions, tokens, leases, page states,
recorder). Timers, page events, abandoned connection attempts and the shutdown run beside this under no lock
at all; most of what can go wrong is where they meet the requests. JavaScript runs one step at a time, so in
every module a step of a daemon-side component goes from one `await` to the next.

`PROJECT.json` lists the components with what is modelled of each, and under `hazards` what is hard to test
in this code, each at its line and with the properties that would notice it going wrong.

## The modules

### BrowserPageLock, ExclusiveAccess, BrowserPageLockProofs

`BrowserPageLock` is `createBrowserPageLock`. `Enqueue` is a call of `withBrowserLock` or `withPageLock` (push
and drain), `Finish` the end of an action, successful or not, with everything `finish` does: give the hold
back, drop the record or drain. `Drain` is one call of `drain`, `Startable` its loop in closed form. The array
`queue` is a set together with the elements ahead of each element, which is all the order of an array without
duplicates says; it makes the invariants short and keeps sequences out of the proofs.

`ExclusiveAccess` is what callers may rely on: a request waits for exactly the conflicting requests that came
before it and are not over. The lock implements it under the mapping at the end of `BrowserPageLock`.

Run `lock`: two browsers, two pages, four requests with every assignment of targets and scopes. Four requests
are the fewest with which a browser request can wait behind a page request while another page request arrives
behind it and a fourth holds another page; two pages make requests that do not conflict, two browsers show
that records are independent. No fairness is assumed: that an action under the lock ends is up to its caller, and not every
one does (`ScriptRun` has one that may not). `EveryRequestRuns` has it as a premise instead, and only of the
actions on the request's own browser: if none of them goes on for ever, the request runs.

### BrowserRegistry, BrowserRegistryProofs

The life of one browser name. A task is a request (`ensure`, `connect`, `auto`, `stop`) that runs under the
whole-browser lock (`holder`) through the stages `preparing`, `closing`, `opening`, `context`. A connect to an
endpoint races a timer: `Expire` takes it out of the request's hands, `ReportTimeout` fails the request and
frees the lock, and the task goes on alone, as `connectTask` does, until `Deliver` discards what it has
opened. `Disconnect` is a browser going away at any time. Websocket resolution, launching, attaching, discovery, new
contexts and closing are environment choices: they succeed, fail or never end. A close that fails is swallowed: the
browser stays open, and `unclosed` remembers it (`Close`). A discovery goes on to the next endpoint when an attach
fails or a context is refused (`GiveUp`, `attempted`), and a connection that refused its context is let go of, open
(`ContextRefused`, `left`). `local-endpoint.ts` is in the choice of endpoint. `StopAll` is the stop of every browser at the shutdown, which takes no lock: it removes the entry it finds
and closes that browser (`doomed`) while requests go on. The exit of the process, which follows, only ends the
behaviour early. The type invariant is proved (`BrowserRegistryProofs`) and
not repeated in the run.

Run `registry`: three tasks, two endpoints, two launch modes. Three tasks give an abandoned attempt, a
request it interferes with, and one that comes after. Fairness: the timer of a connection to an endpoint and its
report, whose diagnosis is capped, are sure to come; nothing else is, no stage of any request. So `DeadlineFreesLock` speaks
of those connections only: `autoConnect` as a whole, `browser.close` and `newContext` have no deadline, and a stall
there keeps the lock for the other kinds of request. The system stops when the tasks are used up, so deadlock is
not checked.

Run `registry_abandoned` is expected to fail: see the findings.

### DaemonLifecycle, ServedCommands, DaemonLifecycleProofs

Commands (`ensure_daemon`, then the request; or `stop`) and daemon processes, which share the socket path and
the PID file. Every exchange of a command is a new connection, so the daemon that answers may change between
any two, and each may fail. A probe may find a daemon unfit though it is of the command's own build: a package of another
version, a report that is incomplete (`runtime_mismatch_reasons`). `start()` is `ClearSocket`, `WritePid`, `Listen`; `shutdown()` is `CloseServer`,
`StopEverything`, `Unlink` (twice, in either order); `Kill` is the operating system's. `MayRestart` and
`MayBegin` are the operation tracker of `runtime-handshake.ts`. Endpoints are Unix sockets.

`ServedCommands` is what becomes of commands and daemons, with no path, file, probe or poll: a daemon serves, is
promised to be replaced, ends, is over; a command waits, is worked for, is done or fails. Work is taken by one serving
daemon and answered by the same one, or lost with it when it is cut, which fails exactly the commands it worked for. A
daemon is of the build that spawned it and is promised away only to a command that waits and while it runs nothing. It
does not say that a command finds the daemon that serves, which is where `daemon_reachable` fails.

Run `daemon`: three commands of two builds and at most two daemon processes (`MaxDaemons`): one that is
replaced or lost and its successor, with a third command to interfere. Commands and builds are symmetric:
no property distinguishes them and there are no liveness properties. The commands end, so deadlock is not checked.
Run `daemon_reachable` is expected to fail.

### VideoRecorder, PageRecordings, VideoRecorderProofs

The registry of recordings of one browser's pages and all that ends them. `Begin...`, `Started`,
`ChapterShown`, `Stopped` are the parts of a command between its waits, under the lock of its page; `CapReached`
and `PageCloses` finalize without it; `Settle` is the end of `#saveRecording` with its continuation in
`#finalize`, which deletes the page's entry whoever's it is by then; browser-stop and shutdown are
`FinalizeAll` followed by stopping the browser and, for the shutdown, exiting.

Run `video`: two callers, two pages, three recordings (`MaxRecordings`), enough for a page to be recorded again
while its previous recording is still being saved. Fairness: timers fire and savings settle
(`#saveRecording` catches everything). Nobody has to send commands. Deadlock is not checked: the daemon exits.
Run `video_exit` is expected to fail.

`PageRecordings` is what recording comes to without commands, locks, timers and maps: a start looks for a running
recording and an untold cap, and registers, in one step (in the code several waits lie between); a recording is ended
once and settles once; a cap is told before its page is recorded again; nothing is recorded while the browser is being
stopped. It forgets who asked. The recorder implements it with `untold` the pages whose cap is noted.

### Clock, PageLeases, ConfirmationTokens, GuardedClick, InputGuards, GuardedClickProofs

`PageLeases` is `PageLeaseManager` and `ConfirmationTokens` is `ConfirmationTokenRegistry`; both measure time by
`Clock`. An expired lease or token stays on record until something removes it, as in the code. `GuardedClick` is
what uses them: `confirm`, a click from its first validation to the decision to retry it, and the other
trusted inputs (`Typing`), cut at their waits
(`check`, `resolve`, `recheck`, `authorize`, `read`, `consume`, `dispatch`), between which the page changes or
navigates, time passes, sessions open and close leases, another browser's stop forgets every token. A request
holds the lock of the name it calls its page by (`BrowserPageLock`), and a page can be called by several names,
so requests of the model are known by the name, and two of them run on one page at a time. The page is its
document, URL, visible text and the fingerprint of one target; recorded states and their validation keep the
document and the target. What a caller chooses (state, token, session, retry policy, expected text) is open;
a session is chosen when it is first asked for, which saves states and changes nothing, since it is not
looked at before. The lease is asked for once in every dispatch (`prepareClickInput`, `dispatchTypeInput`), after which
it sends its inputs (`Send`) as late as Playwright gets to them, asking nobody: `locator.click` waits first, a text goes key by
key with a delay, a drag has its release. A further dispatch of a request (`NextDispatch`) and another attempt of a
click (`Retry`) ask again. A click without a token is not compared with a state in the model, which allows it more, not less.

Run `click`: two names, one session, one token that lives one tick, leases of one tick, two URLs, one look of the
target, one change of the page, two inputs or attempts of a request, a clock that ticks once (`MaxTime`, `MaxChanges`,
`MaxInputs`). One token that both
names may present at any time, expired or not, is enough for it to be presented twice, and one session for
a page that is leased to somebody else. Names and URLs are symmetric, which is sound because there are
no liveness properties. Text is a single value in the runs: it takes part in nothing but the scope of a token,
like the URL. So is what the target looks like: a document that was replaced makes a validation fail just as a changed
target does; the proofs hold for any looks and texts. `LeaseRespected` is about the leases that were on when the dispatch of
an input asked (`known` has the sessions opened by then): one opened later, while a confirmation text is read, Playwright
waits or the rest of a text is typed, is not noticed, though the
comment at `interactive-actions.ts:1733` says that a click is authorized again immediately before its input.

`InputGuards` is what leases and tokens promise, with clocks that are exact and with no maps, timers, validations or waits.
A lease is on a page until the moment it expires or is closed; a token is good until the moment it expires, is
presented or forgotten. A dispatch is granted (`Ask`) while nobody else leases the page; a request that has a token
to show needs it to be good for its name and URL, and uses it up (`ShowToken`); then its inputs follow, until it
ends or begins another dispatch, which has to be granted again. The refinement says that lazy clean-up, late timers and
the two maps of `sessions.ts` make no difference: `leases` are those both maps and the clock agree on, `scope` that of the
entries that have not expired, `claim` the token a request has not consumed yet, `granted` the requests between the
assertion of the lease and the end of their dispatch.

### SelectiveTransport, TargetPages, TargetPagesProofs

`SelectiveTransport` is the CDP connection to a browser that was connected to: Playwright is told of the targets that are
asked for and of no others. A call sends internal commands one after the other (`list`, `activate`, `info`, `attach`,
`detach`), or is a page Playwright creates; the answer to the latter is `held` back until the new target is attached
and Playwright told. `Attached`, `AttachmentHeard`, `WindowOver` and `GiveUp` are the ways an attachment ends: by
the browser's own event, by what the transport makes up after 50 ms, or by a refusal; `HangUp`, the end of the connection, fails
whatever pends. Session identifiers and messages passed through unchanged are left out, and so is anything that arrives after
the connection closed, which the code ignores. Internal commands have no timeout.

`TargetPages` is what `BrowserManager` does on top: `getPage` by target (look at the pages, attach, poll until exactly one
new page is there) and by name, `listPages` with its pruning, `closePage`, popups, and the listeners on pages and
connection. `bound` is `targetPages`, `names` is `entry.pages`. A `getPage` that finds an open page registered changes nothing
and is no step; a popup registers in one step; tabs that were open before the browser was connected to open by
`TabOpens`; a target's page opens once. `crossed` is kept for the properties: the calls that saw another target's page
open while they attach.

Run `pages`: two calls under way together, two targets, one name. Two calls are enough for one to attach while the
other attaches, creates, lists or closes, and each may be repeated without bound; two targets to bind the
wrong page, a name to be taken from its successor. Calls and targets are symmetric, without liveness properties. The
connection may close for good, so deadlock is not checked.

### WaitEngine, ObservedInputs, WaitEngineProofs

`runWithWait` and the attempts of the action around it. An attempt installs its listeners and its capture (`Install`),
dispatches its input, polls (`Poll`, `SettlesQuietly`, `Passes`, `Late`, `PollsAgain`), collects what it noticed and cleans
up (`Leave`, `CleanUp`); `Repeat` and `Stop` are the retry decision. The capture manager in the document is shared:
`captures` has the actions whose capture is in it, `undrained` those with something to report, `setters` who patched the
document's setters, the manager or the page, in order. What happens on the page is either an effect
within the document, which only a capture notices, or an event that Playwright reports. Conditions other than
`settled` hold or not as the page pleases, and an action that waits for `settled` (`Settling`) waits for nothing else;
frames, baselines and what events contain are left out. Effects that Playwright does not report and that
happen after the last drain of an attempt are not claimed to be noticed.

`inFlight` counts requests without knowing which they are: the end of a request that began before the attempt is counted
off one that began later. `QuietUnlessStray` says that this (`strays`) is the only way in which a page is taken for
quiet while a request of the attempt is open; the plan of the authors
(`docs/superpowers/plans/2026-09-17-agent-speed-optimization.md:237` and `:244`) asks for no open request.

`ObservedInputs` is the same with eyes for every attempt: it sees at once whatever happens while it watches, and starts
knowing nothing, so that what happened to an earlier attempt or to another action neither counts as its effect nor keeps
it from being repeated. Whether an attempt that is still installing, or over, learns of something is left open; the close
of the page may take from a watching attempt what it has not looked at. `found` is what was noticed or still lies
in the capture for an attempt that will look. The policy of retries is part of it as far as it forbids: a late attempt is
repeated at most once, a safe one only if nothing was found. Nothing is repeated for certain, since `retryDecision` also
stops for a guard, for the irreversible intent of a target under `once` and for what could not be observed; `MayRepeat` of
`WaitEngine` has all of these.

Run `wait`: two actions on one page, one that settles and retries safely and one that is retried `once`, and two
requests, which is enough for one of them to be a stray. The actions differ, so there is no symmetry, and there
is no liveness property: evaluations in the page have no timeout of their own. A page may close, so deadlock is not
checked. The type invariant is proved and not repeated in the run.

### TraceStore

The directory of traces. `Allocate` and `Screenshot` belong to a request, which then queues its save; saves run one at a
time, as `written` (the trace is there), `naming` (LAST has been emptied), `cleaning` (LAST names the trace) and `removing`, where files
go one by one (`doomed`) and each removal may fail. A save may fail, and the daemon may crash and be started again, at any
time; `last` is no trace as long as LAST is missing or empty. A save is
shorter than the grace period. Two daemons on one directory are left out.

Run `traces_retention`, which is expected to fail: three traces of which two are to be kept, a grace period of one tick, a clock
that ticks twice. What does hold of the store is proved (`CleanupProofs`) and needs no run of its own.

### ScriptRun

One run of a script, from `executeScript` to the end of `dispose`. The script (guest) may act whenever its interpreter is
there, because its timers and returning host calls run it too. The timer that ends it (`armed`) is one of them, and as a
timer with a number for its id the script may clear it (`ClearTimer`). The host's loop takes turns (`Turn`, `RaceOver`, `NextTurn`):
drain the guest's jobs, hand over the inbox, wait until one of the commands pending at that moment is over
(`Promise.race`), hand over the inbox again. A command is quick, endless (an `evaluate` of a promise that never settles, a
timeout of 0), or asks: it goes on only after the guest has answered a question (a dialog, a route) that comes
through the inbox. `settled` lags behind `script` when the script settles in the drain at the start of a turn, as the
host hears of it one microtask later. Pages that the script opened are closed by `executeScript` and again by
`dispose`; `late` and `left` mark those that no cleanup lists and those whose closing failed. Any jobs may fail or overrun
their CPU time (`DrainThrows`). The commands by which the guest answers, named pages, files and the pool of warm
sandboxes are left out. `CleanupProofs` holds the proofs.

Run `scripts`: three commands, of which two can be raced while the third is sent, and two pages, so that one is given up
because closing the other failed. Fairness: the steps of the host's loop, the timer of the script as long as it is armed, and
quick commands; nothing is expected of the script, nor of Playwright's `close`, which has no timeout. The sandbox goes away, so deadlock is not checked.

## What TLC shows

The runs check the properties below; each has a mutant in its module (an operator marked `Slip`) with which the same run
fails. The runs `lock`, `pages` and `scripts` check their type invariants too; those of the other modules are proved only.
Five runs check a refinement as well: `lock`, `daemon`, `video`, `click` and `wait`.

- The lock excludes conflicting requests, its bookkeeping agrees with who runs (so no record is dropped early
  or kept), nobody waits without a conflicting request that runs or is ahead, nobody overtakes, everybody runs in the end if no
  action on the same browser goes on for ever.
- A prepared browser is the one that was asked for, registered and open; a launched browser that is gone is not
  offered; an attempt that was given up leaves nothing behind but what it failed to close; no browser is lost while deadlines
  hold, except one that refuses a context or fails to close; a connection to an endpoint that stalls does not keep the lock.
- A daemon that granted a restart runs nothing until it is gone; a command has a daemon of its own build replaced only if it
  found one of that build unfit, never because another one has come to answer; no command waits for a daemon that is gone.
- A running recording is always the one its page has registered; a cap is told before anything else happens on
  its page; no recording runs while its browser is stopped; every recording ends.
- Whatever attempts, requests and names present a confirmation token, one click or one request of inputs at most is sent
  for it: on its first presentation, before it expires, at the confirmed URL. No input, of any attempt or dispatch, goes against
  a lease that another session had opened before that dispatch asked.
- Playwright hears that a page was created only after it was told of it; nobody waits on a closed connection; no page is
  bound to two targets; a target gets the page of another only from a call that the other page crossed; a page
  keeps its name until the name is closed or created anew.
- Whatever happens after the dispatch of an input is noticed by its attempt, so that no safe retry repeats an
  input that had an effect; the capture leaves the document as the page made it; a quiet page is quiet, strays apart.
- A script ends at the latest when its time is up, and its pages with it, unless the host is for ever racing commands that do
  not end by themselves, the script has cleared the timer, or a page does not close.

The runs that fail state what the repository says of itself and show where the code does otherwise:

- `AbandonedAttachIsHarmless` (`browser-manager.ts:339`): an abandoned connection attempt stops the browser of a
  later request before it attaches.
- `DaemonStaysReachable` (`skills/dev-browser/SKILL.md:15`): a daemon that starts, or one that ends, takes the socket
  path from a daemon that is alive.
- `NoneHalfWritten` (`daemon.ts:872`): a recording that is starting when the shutdown begins, or one still being saved
  when the end of an earlier saving clears its entry, is cut off by the exit.
- `RecentTracesAreRetained` (`README.md:98`): a trace is itself taken for an orphaned artifact: once it is older than five
  minutes the next save removes it, however few traces there are.

`EndsUnlessStuck` holds with exceptions, of which users meet one: a script that awaits a command without an end
(`page.evaluate(() => new Promise(() => {}))`), or one that waits for a dialog the script would accept, is
not ended when its time is up, and keeps the lock of its browser. The timer does fire, but the loop is
inside `Promise.race` (`quickjs-sandbox.ts:645`). The test at `sandbox/__tests__/sandbox-integration.test.ts:156` covers a script with
no command pending only. The other two need a script that clears a timer it does not know of, or a browser
that does not answer `close`.

## What is proved

`BrowserPageLockProofs` proves for any sets of browsers, pages and requests every safety property of the
lock: `Invariance`, `TypeCorrect`, `Exclusion`, `Bookkeeping`, `NoLostWakeup`, `Fifo` and `Refinement`. The only assumption is
that the scope of a browser request is not a page.

The properties are not inductive one by one: that a request may start depends on the order of the queue, which
must agree with the phases, which must agree with the holds. `IInv` joins them. Its part `Good` speaks of the
holds, the queue, the order and the phases as arguments, because `Drain` is called in the middle of an operation on
values that are not those of any state: `EnqueueHandsOverGood` and `FinishHandsOverGood` show that what is
handed to `Drain` is good, `DrainKeepsGood` that it stays so. The refinement needs in addition that a
waiting request is startable if and only if it has no opponents (`StartsIffUnopposed`), from which the set of
requests it waits for changes in each operation exactly as in `ExclusiveAccess`.

The other proofs hold for any values of the constants under the assumptions that their modules name, and go the same
way: an inductive invariant `IInv`, a lemma per action, the properties from `IInv`.

- `BrowserRegistryProofs`: what a task has done by its stage (`Stages`), that whoever works in time holds the lock
  (`Lock`), and that a registered or closing browser belongs to a task that is over, so that a task that has found
  the name free finds it free until it is done (`Registry`). All its safety properties, `PrepareDelivers` included.
- `DaemonLifecycleProofs`: a daemon that is removing its files runs nothing (`Cut`). It survives any change of who listens at the socket path.
- `VideoRecorderProofs`: a recording runs if and only if its page has it registered (`Registered`); a start
  holds its page and what it has looked at is still so (`Locked`); a browser that is being stopped has no commands
  (`BrowserHeld`).
- `GuardedClickProofs`: where a request can be and what it has done by then (`Path`); a token is spent at its first
  presentation (`Burned`); a lease is on record in both maps or in none (`Paired`); a dispatch that was authorized has
  no writer among the sessions it knew of (`Cleared`), which no later opening, renewal or clean-up changes.
- `TargetPagesProofs`: of the transport, who listens for a target is attaching it, and who heard of it was told (`Listens`,
  `Told`, `Pends`, `Aimed`); of the manager, pages that are registered or were seen have been open (`Past`), so a
  page that opens is registered nowhere, and a call nobody crossed has seen every open page but its own
  (`UncrossedAt`).
- `WaitEngineProofs`: an attempt that may still look has its capture in the document, or has noticed that the document
  was replaced (`Evidence`); the manager's setters never lie on one another (`Apart`); an attempt counts the requests
  it saw begin unless it counted off another (`Counts`). `RequestsAssumption` says that finitely many requests are open.
- `CleanupProofs`, of the pages of a script: each open page is listed either for the loop's clean-up or for `dispose`, never in
  both, and when nothing is listed any more what is left came too late (`PagesTracked`). From it `NoPageLeftBehind`.
- `CleanupProofs`, of the traces: the trace being saved is the newest and was written in the current tick, and what a clean-up
  has decided to remove does not come to be needed before it does (`NewestIsBeingSaved`, `RemovalsAreSafe`). `TraceParameters`
  says that at least one trace is kept and that the grace period is not zero. From it: a trace that LAST names is there, and LAST
  names the newest one if that was saved to the end (`LastStaysThere`; it may name none after a save that ended while
  writing it), and screenshots in use are spared (`ScreenshotsAreSpared`).

Five abstract specifications are implemented, for all values of the constants (`Refinement` above, and):

- `RecorderRefinement`: by `Locked`, what a start has looked at is still so when it registers, so that the
  step that registers does both; by `Registered`, what a finalization takes from the maps are the running recordings of its pages.
- `LifecycleRefinement` needs a second invariant (`RolesInvariance`) next to `IInv`: a command that stops does nothing else, work has one home
  and its command waits for it, nothing befalls a daemon before it is spawned. Then the step that hangs up
  cuts exactly the commands that wait for that daemon.
- `GuardsRefinement`: by `Paired` the two maps and the clock agree on who holds a page once the expired leases are
  set aside (`OnLease`, `HoldersMayWrite`), so what is cleaned up is never on; by `Path` and `Burned` a request
  that dispatches by right of a token consumes it in that very step, and an input is sent only between then and the end
  of the dispatch.
- `WaitRefinement`: by `Evidence` a watching attempt has what happened noticed or in its capture, and a new
  capture starts with nothing for its action (`ListensAfresh`), though the manager outlives the attempt.

Only model-checked are the liveness properties (`EveryRequestRuns`, `DeadlineFreesLock`, `EveryRecordingEnds`,
`EndsUnlessStuck`), which need fairness, or a premise like it, and are beyond the prover. Every other property of a passing run is a theorem.

## Plan

1. What `BrowserRegistry` and `TargetPages` promise as abstract specifications of their own, and their refinement: a name
   that is empty, has a browser, or is being prepared; a page that is bound once.
2. The pool of warm sandboxes (`script-runner-quickjs.ts`): leases of a sandbox, replenishing, invalidation when the
   browser goes away, a cold start of which one half fails.
3. The eviction of page states (`page-state.ts`), with a cap smaller than the hundred of the code.
4. A composition of the registry and the lock, for the gap between preparing a browser and locking its page.
5. The caps of tokens and journals.

## Not modelled

The vendored Playwright client (`sandbox/forked-client`, a large part of the implementation's lines), its
validators and the QuickJS interpreter are libraries: the modules have what the daemon sees of them. Perception,
snapshots, redaction, schemas, recovery commands and command-line parsing compute texts and trees from texts and trees, with
hardly any control; artifacts and temporary files are file input and output. Batches are a loop that stops at the
first error. What distinguishes the trusted actions from one another (how text is entered, what is scrolled
or uploaded) is left out of `GuardedClick`. Window visibility is one probe and one repair. Packaging and
benchmarks keep no state. The modules therefore cover a small part of the lines, and the part in which the order of
events matters.
