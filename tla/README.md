# phyless in TLA+

phyless is a web console for one or several Docker servers: a Go backend (`src/backend`) that
talks to the Docker daemon and keeps its configuration in one file, `config.json`, and a SolidJS
single-page frontend (`src/frontend`). This directory models the parts of it whose correctness
depends on the order of events: what happens when a Docker call fails half way, when a request is
dropped, when the process restarts, when two tasks meet on one container, or when an answer reaches a
page that has meanwhile become another one.

File names below are relative to `src/`; `B/` stands for `backend/internal/`, `F/` for
`frontend/src/`.

## 1. Inventory

| Component | State it keeps | Operations | Hard behaviours | What makes it correct |
|---|---|---|---|---|
| **Container replacement** `B/docker/container/upgrade.go` (`replaceContainer`, `settleReplacement`), `container.go` (`rollbackUpgrade`, `restoreUpgradeName`, `restoreUpgradeNetworking`) | none but local variables; the containers in the daemon are the state | create, connect, stop, start, watch, rename twice, remove; and the rollback of each | every call may fail, or be carried out after its caller has gone; the request is cancelled; the cleanup context times out; the process dies | the user's container is never lost or doubled; a failure gives name, run state and addresses back or says what it could not; success is the verified image |
| **Container upgrade** `upgrade.go` (`upgrade`, `networkDependents`, `restartDependents`, `recreateDependent`), `tryUpgradeOperation`, `B/api/containers.go` (`upgradeContainer`) | `upgradeOperationState`, the set of locked IDs | inspect, lock, lock dependents, pull, hand off, replace, recreate or restart dependents | batch tasks on a container and on containers that share its network namespace; IDs change under the lock; the container is phyless itself | no container is replaced underneath another task; no dependent stays in a dead namespace in silence; locks come back; phyless does not stop itself |
| **Task queue** `F/stores/taskQueue.ts` | task list, XHR and abort maps, waiters, `localStorage` | enqueue, pump, start, settle, cancel, cancel all, remove, clear, reload, hand-off watch | nested pumps, several events that settle one task, reload at any time, refused writes and a second window on the storage, server switch | keyed FIFO with a bound on concurrency; every caller answered once; stored history current; no old work during or after a switch |
| **Watch of restart or helper** `F/api/selfRestart.ts` | an abort signal | `awaitHelper`, `awaitRestart` | connection gone while the backend restarts | ends; a cancelled one stops |
| **Scheduled auto-update** `B/autoupdate/autoupdate.go` (Runner), `B/api/autoupdate.go` | `auto_updates` in `config.json`; per runtime a timer, a wake channel, the map `started` | loop, tick, wake; put, delete, rename follow, run by hand, record, mark interrupted | wake against timer, restart and reload during a run, failed writes, a manual run beside a scheduled one | the first due policy runs, once per trigger; never oversleeps; statuses are true; one policy per target |
| **Browse container pool** `B/docker/debugshell/pool.go`, `busybox.go`, `B/docker/fsbrowse/fsbrowse.go` (`Release*`) | map key → box, the busybox volume | ls, run, write, remove, release | shared creation, early expiry, boxes removed by others, dropped requests, a release during a creation | an operation outlives no box; failures are not inherited; nothing is stranded; a release releases |
| **Polling stores** `F/stores/resource.ts`, `refresh.ts` | value, loading, error, generation, the read in flight, an interval | refresh, start, stop, hide, show, settle event | answers that were overtaken, aborts, page changes in any order | the page never shows data older than a finished task; timer and spinner are right |
| **Docker runtime switch** `B/api/docker_runtime.go`, `docker_settings.go` | the current runtime; active server in `config.json` | reload, select, edit and its undo | requests in flight on the old runtime; failed switch undone | configuration and runtime agree; old runtime ends |
| **Configuration store** `B/store/store.go` | `config.json` | read, write, update | crash between write and rename; committed but reported failed | old or new content, never a mixture |
| **Change and run caches** `B/docker/fsbrowse/changes.go`, `runs.go` | change sets with timers, a budget; executables with a time | get, evict, remove, clear | shared fetch invalidated while under way | budget exact; nothing stale after a write |
| **File writes** `B/docker/fsbrowse/write.go`, `volume.go`, `B/api/fs*.go`, `chmod.go` | none | write, mkdir, delete, chmod in a box | box vanishing (pool) | path safety (sequential) |
| **Self operations** `B/docker/self/self.go`, `B/api/helper.go` | one helper container, `helper-result.json` | launch, last result | launch and result at once; process stopped by its helper | one operation on phyless at a time; result read once |
| **Compose operations** `B/api/compose.go`, `B/docker/compose/*` | lock per project, build capability cache | up, down, restart, pull, rebuild | parallel operations, the project of phyless itself | exclusive per project |
| **Image pull pipeline** `B/docker/image_pull.go`, `stream.go` | two pipes, a cancel function | pull, load, close | either side fails first | both goroutines end; no partial image as success |
| **Update checks** `B/api/update_check.go`, `B/docker/image_check.go`, `registry_tags.go`, `F/stores/updateCheck.ts` | results in the browser | check | none that outlives a request | right comparison of digests |
| **Users and sessions** `F/stores/auth.ts`, `F/api/client.ts`, `LoginPage`, `UsersPage`, `App`; `B/api/users.go`, `auth.go`, `B/auth/auth.go` | users in `config.json`, JWT; in a window the user, the token (shared with other windows through `localStorage`), one login attempt | sign in, set up, start, sign out, create, edit and remove users | 401s for a token already replaced; a sign-out while `/me` is under way; a switch of the Docker server under open reads; two edits at once | nobody is signed in again by a late answer; a session ends for its own reasons only; rows are those of the current server |
| **Audit log** `B/audit/audit.go` | log and five backups | append, rotate, tail | a rotation failing half way | no entry lost by rotation |
| **Terminals, logs** `B/ws/ws.go` | none | copy streams | — | — |
| **Pulls by the browser** `F/stores/browserPull.ts`, `F/api/registryPull.ts`, `dockerTar.ts`, `imageLoadStream.ts`, `B/ws/imageload.go` | the runner's position, a tar generator, a socket with a buffer, the pipe in the backend | pull, compose pull, create, upgrade, compose update | a layer breaks off; the tag moves; the socket dies; phyless is stopped by its helper; the user cancels at any await | the daemon takes in whole images of one version; done is done; cancelled starts nothing; nobody waits for good |
| **Pull options and accounts** `F/components/shared/PullOptions.tsx`, `RegistryAccounts.tsx`, `F/stores/browserPullSettings.ts` | form values; endpoints, proxies and accounts in `localStorage`; the server's accounts | choose mode, endpoint, accounts; reveal, save, remove | secrets revealed and lists read by requests that end after the form changed | accounts stay with the endpoint they were typed under |
| **Remote image search** `F/components/images/RemoteImageSearch.tsx`, `F/api/registrySearch.ts` | keyword, repository, pages, details by tag, a request per pane | type, choose, page, filter, retry | lookups answered after what they depend on changed | what is listed is of now; the search comes to rest; Docker Hub's manifests are not read |
| **File pages** `F/components/shared/FileBrowser.tsx`, `TarTextViewer.tsx`, `ConfigFilesPage`, `ComposeDetailPage`; `F/stores/latestFile.ts`, `F/api/download.ts` | path, listing, open file and text, dialogs, a download | navigate, open, edit, save, rename, delete, chmod, download | one component for several instances; handlers that wake up elsewhere | rows belong to the path; no file is overwritten with another's text; the widget tells the truth |
| **Tabs and detail pages** `F/stores/tabs.ts`, `Layout`, `ContainerDetailPage`, `ComposeDetailPage` | tab strip, saved sub-tabs, labels; inspect and tasks of the page | visit, close, drag, back, act, remove | navigations commit later and replace one another; the container goes while it is shown | closed tabs stay closed; names and values are the page's own; the page of a container that went is left |
| **Settings handlers** `B/api/registries.go`, `remote_registry.go`, `templates.go`, `networks.go`, `volumes.go`, … | `config.json` | one update or one Docker call each | — | — |
| **Server start-up and routes** `backend/cmd/server`, `B/api/server.go` | — | — | — | — |
| **List pages, forms, widgets** `F/components` | view state | — | — | — |

How they interact: the user interface puts every write into the **task queue** as an HTTP request; its
settle event makes the **polling stores** read again. The handlers run in the **runtime** of the active
Docker server. An upgrade request, or a policy of the **auto-update** Runner, calls **container
upgrade**, which calls **container replacement** for the container and again for each dependent. An
operation on phyless itself goes to the **helper**, and the task queue polls for its result. Listing
files goes through the **pool**; deleting an image, container or volume first releases its boxes.
A pull "by the browser" is a task whose work is done in the page: the **browser pull** reads the registry
through an endpoint that the **pull options** name, assembles the archive and streams it to the backend;
the **remote search** uses the same options for its lookups. The **file pages** and the **detail pages**
queue their writes like everybody else, and every page hangs on the **session**: a sign-out or a switch
of the Docker server gives up the reads, the tasks and the pages themselves.

## 2. Modules

```
AtomicReplace  <--implements--  ReplaceContainer  <-+
ContainerUpgrade                                  <-+- ContainerUpgradeProofs
                     (replaceContainer reduced to the steps other tasks can see)
KeyedPool      <--implements--  TaskQueue         <-+
BrowserPull          (one browser task inside)    <-+- TaskQueueProofs
PollingResource                                   <-+
BrowsePool                                        <-+
FilesPage                                         <-+- BrowsePoolProofs
AutoUpdate                                        <--- AutoUpdateProofs
Session                                           <--- SessionProofs
Filtered  <-  Workbench                           <--- WorkbenchProofs
Filtered  <-  PullForm  <-  RemoteSearch          <--- RemoteSearchProofs
Filtered                                          <--- SequenceLemmas  <-  the last two
```

Each `MC…` module only extends its module and gives values to constants (`MCTaskQueueCancel` adds a
history variable for one question). Operators marked `Mutant` are slips of the code that each
property must notice; nothing uses them. `Sound` joins the type invariant of a module with its plainer
state invariants, each of which has its own name and comment (`PullSound` in BrowserPull, `FilesSound` in
FilesPage). A `…Proofs` module extends its modules with the inductive invariants and the theorems of
section 4. Some prove about several: an upgrade and the replacements it makes, the queue with what runs in
its tasks and what listens to them, the pool and the page one browses its boxes with. That is why names that
two of these modules would share carry their module's name in one of them (`FilesSpec`, `StoreTypeOK`).

### ReplaceContainer, AtomicReplace

One attempt of `replaceContainer`. `pc` names the next Docker call; there is one action per call, and
after it the code's branch on success or failure, so `Stop` is `ContainerStop`, the assignment of
`stopped` and `restoreNetworking`, and the choice between `ContainerStart` and `rollbackUpgrade`. `ctr`
is the daemon's view of original and replacement (name and state), `address` the fate of the addresses
the original had on its networks (macvlan addresses are what the code takes pains to restore),
`netns` whether its network namespace survived.

A call answers `ok`, `fail` (nothing done), or `lost`: the context ended while the call was under way,
so the client reports an error and the daemon carries it out all the same, in the case of a stop even
later. `lossy`, chosen at the start, says whether that third answer occurs. The environment may cancel the request, let the
30 seconds of the cleanup context pass, move the tag, end the replacement and kill the process.

`AtomicReplace` is the promise: the outcome is `switched`, `kept` (the original as before),
`reported` (the error names what was not restored) or `abandoned` (the process died), and the original
is given up only to a replacement that owns its name. Where answers may be lost, `kept` promises that
the original exists, not that it runs with its addresses.

### ContainerUpgrade

Several tasks upgrading `Main` and `Deps`, the containers that use `Main`'s network namespace by name
(`ByName`) or by ID. A container is its name with a generation: the pair is the ID. `Inspect`, `Lock`,
`List`, `LockDep`, `Pull` are the steps of `upgrade` up to the hand-off, `StopOriginal`, `Switch` and
`RollBack` are what others see of `replaceContainer`, `Restart` and `Recreate` are
`restartDependents` and `recreateDependent`. A stop whose call fails may be carried out all the same,
before the attempt rolls back (`StopOriginal`, `heard` FALSE) or after the task has ended (`ending`,
`StopEnds`); `stopped` stays false then, and the ghost `cut` holds the dependents that lost their network
by it, until they have one again. A dependent's failing restart may have left it as it was, stopped or
running; what it does to a dependent after its call has returned is left out. `attached` says whether a dependent sits in the namespace
`Main` has now, `self` which container phyless runs in. The ghost `unsure` of a task holds the dependents
it may have missed: those that another task had locked and that it did not find when it listed them
(`List`), and those it found that changed before it locked them (`LockDep`), which takes a third task or
the end of the second.

### TaskQueue, KeyedPool

JavaScript runs an event to its end, so events (`Enqueue`, `Cancel`, `CancelActive`, `Forget`,
`ClearFinished`, `Reload`, `HandOff`, `Disconnect`, `TooLarge`, `WatchEnds`, `BrowserEnds`) are taken
only while no `pump()` is on the stack. `cancelActiveTasks()` cancels one task a step (`CancelsNext`), with
`suspended` for `suspendPump` and `toCancel` for the tasks it has yet to come to, and pumps at its end. `pump()` is modelled one loop iteration at a time with a stack
of frames, because `start()` can throw and `settle()` then pumps within the outer loop, whose `slots`
and `busy` were computed before. `net` is the transport; `closed` is a request whose exchange is over
while its task still waits for a helper. Tasks are numbered as they are enqueued, so that the task list
and what `localStorage` holds are sets: their order is that of the numbers. `persist()` may be refused
(`mishaps` counts these), and a second window (`other`) loads and overwrites the same storage; the ghost
`current` says that what storage holds is what this window wrote or loaded last. `Worlds` is how much of
the bounds is used up when the page is first loaded: `nextId` is `Date.now()`, which starts anywhere. `KeyedPool` (`Submit`,
`Start`, `End`) is the promise of the comment at the head of `taskQueue.ts`.

### AutoUpdate

`policies` is `auto_updates` of one server in `config.json`; `loop`, `wake` and `started` are the
Runner of each runtime, `run` the `runAutoUpdate` calls (one per Runner, one for the user), `api` a
request between its write and its `wakeAutoUpdater`. `Awake`, `Tick`, `TickAgain`, `LoopEnds` are the
loop; `Begin`, `Attempt`, `Finish` the records of a run; `Put`, `Delete`, `ChangeContainer`/`Follow`
the handlers. `Restart` is a new process, `NewState`/`Swap` a reload. `shown` is what an old page may
still send; `missed`, a ghost, marks a Runner whose predecessor was told of a change in its stead.
An outcome of a run is one of none, running, ended and interrupted. Schedules are reduced to hourly ones (relative to the last run) and clock ones (multiples
of a period); the calendar arithmetic is not modelled.

### BrowsePool

One process per request with the critical sections and Docker calls of `do`, `get`, `start`, `Remove`
and `Release*` as steps (`Begin` … `RemoveLabeled`). `boxes` is the map, `box` every box with its
container, `volume` the shared busybox volume, which somebody may delete between `busyboxMount` and
`ContainerCreate` (the daemon then makes a blank one). A create or start whose call fails may have been
carried out, and the removal after a failed start may fail for any reason, as nobody looks at its result
(`pool.go:281`); the ghost `stray` holds the containers such calls leave behind. Time is counted in units of `opTimeout`.

### PollingResource

One action per event of `createPollingResource`. A value is represented by the version of the server's
state its read saw; `settled` is the version the last finished task left behind. The generation counter
is reduced to whether the read in flight is the current one.

### BrowserPull

One task of the queue that downloads with the browser, from its start to its settling. `pc` is the
`await` the runner is at, `todo` what is left of the task (images to pull, requests to post), `img`
the versions of index, manifest and config `resolveImage` has read, `tar` the position of the tar
generator, `sock` the WebSocket with its buffer, `load` the pipe into the daemon, `op` the requests sent
and what became of them, `helper` the container that restarts phyless. `tag` moves under the task;
`MCTasks` holds every kind of task with its switches. A fetch answers, fails or is aborted; a layer
breaks off; the socket dies; the daemon refuses.

### FilesPage

The compose, configuration and container file pages: the browser (`path`, `listing`, overtaken requests
in `late`), the editor or viewer (`sel`, `text`, `reads`), the dialogs, the operations queued by file
(`queue`) and downloads (`streams`). A continuation after an `await` is an action of its own and uses what
the route, the path and the selection are by then. `Save` is the shortcut of the editor as well as its
button and asks for no role; that a viewer's save does nothing is the backend's doing (`TaskDone`). `Reinspect` is the effect of `TarTextViewer` that a new
inspect of the container runs again.

### Session

One window (`w`) and the backend's accounts, tokens and Docker servers. `w.reads` and `w.tasks` are the
requests under way with the token each was sent with; `w.attempt` is the login attempt. `CancelAll` is
`cancelPendingReads` and `cancelActiveTasks` with what settles thereby, `Mount` and `Unmount` what pages
do when they come and go. Other windows sign in and out under the same `localStorage` at any time, also
while this window starts; its own user acts only once it has started (`w.ready`).

### Filtered

`Without(s, X)` is `Array.prototype.filter` for the lists of the tabs and of the pull form: the elements of
`s` that are not in `X`, in their order. It is a recursive function, not `SelectSeq`, so that it can be
proved about (section 4).

### Workbench

The tab strip, the route with navigations that commit later (`going`), the page's value (`shown`) and
request (`load`), and the tasks it queued. `Commit` is the router's transition with every effect it runs,
in the code's order: tab opened, query restored, label set, page left or redirected, tabs dropped.
Containers are changed by the page's tasks and by others outside.

### PullForm, RemoteSearch

`PullForm` is the form of an image pull with the accounts of browser and server and `localStorage` (`box`);
requests that reveal a secret or read the account list end after the form changed. `box` holds what
this form wrote last: other windows and refused writes are left out of it. `RemoteSearch`
extends it with the search: both panes' requests, the reads of manifests, and the rerun of each effect
when one of the values it reads has changed (`Follows`). A page of results is represented by the keyword
or reference it answers, the route it came over and the tags it names.

## 3. Runs

Bounds are the constants of the `.cfg` files. `CHECK_DEADLOCK FALSE` is set where the system stops:
an attempt that has ended, a queue with nobody to enqueue, bounds on time and requests that are used up.
Of AutoUpdate and BrowsePool one run covers several small worlds: the initial state picks a `scope`
(the requests or names in use and the bounds on what the environment does) and keeps it. Of TaskQueue the
initial state picks one of `Worlds`.

| Run | Checks | Instance |
|---|---|---|
| `replace` | NeverLost, OneWorkload, FailureRestores, Atomic | one late network, two addresses, with and without lost answers |
| `upgrade` | Sound (types, ReferencesLive, NeverStopsItself), NeverUnderneath, DependentsServed, LocksComeBack | two tasks, Main (phyless or not) with a dependent by name and one by ID, one release each, recreation with or without a new image, one stop at a time that outlives its failed call |
| `queue` | Sound (types, EndedOnce, NoIdleSlot), HistoryCurrent, NoOldWork, Keyed, QueuedMovesOn | tasks of both kinds, one key, two slots, two stored: three tasks on a page that stays; two with a reload and one refused write or event of the second window; one with a reload and two of those |
| `autoupdate` | Sound (types, RunningIsReal), SleepsUntilDue, OncePerTrigger, DueIsRun | two policies on two targets; one policy with a restart or reload; one that a user runs, too; one with both kinds of schedule on a file that cannot be read or written |
| `pool` | Sound (types, NeverOutlivesBox, FailureNotShared, RetryCoversVanished), NotStranded, ReleasedAll, WaitersTold | a listing and a change on one key or two over two lives of a box; with a box removed and a request dropped; with a release; with the volume deleted once; with a container left behind by a failing call |
| `polling` | ShowsSettled, SettledIsShown | three changes, three other events |
| `browserpull` | PullSound (types, DoneIsTrue), WholeImages, NothingAfterCancel, Ends | images of three listed layers (one twice), two versions of a tag, a buffer of one chunk, every kind of task and three plans |
| `filespage` | FilesSound (types, DownloadIsReal), RowsMatch, SavesWhatItLoaded | three kinds of page, two instances, two directories, a name that is in both, three acts of the user |
| `session` | Sound (types, SwitchedScreens), SignedOutStaysOut, EndsForCause, LoginEnds | an administrator and a viewer, two Docker servers, three tokens, four acts of the users of all windows, reloads of this one included |
| `workbench` | Sound (types, LabelIsOwn, Current), ClosedStaysClosed, LeavesTheGone | two containers, the successor of an upgrade, a project, two sub-tabs, three acts |
| `remotesearch` | Sound (types, OwnResults, OwnDetails, HubNotPulled), KeptAsAsked, ComesToRest | two endpoints, three contents of `localStorage`, accounts of both kinds, a keyword and two references, two pages, three acts |

TypeOK, SuccessIsVerified and DependentsTold of ReplaceContainer, and TypeOK, TimerRight, SpinnerEnds
and NeverAppliesStale of PollingResource, are theorems for all constants (section 4) and not run again.

Why the bounds are enough. A replacement is a single process; a second network or address adds only
another turn of the same loop. Upgrades conflict in pairs, and the pairs (Main and a dependent, two
dependents that are listed by the same upgrade, the same container twice, Main and the replacement of
Main) all occur with two tasks. The queue needs two slots, two tasks of one key and one without, and one
more than it stores, so that a slot, a key and the trimming compete, and with three tasks of which one
fails to start a nested pump starts work the outer one still has before it. What is
in storage depends on its last write: one mishap makes it stale before a reload, and the second window needs
two to load a task and move it. An
upgrade whose stop outlives its call meets one other upgrade, so one such stop at a time (`MaxEnding`) is
enough. The pool needs two requests
that share a box and one that replaces it, and a clock that passes a box's life once. A policy needs two
runtimes for everything a restart or a reload can do to it, two policies to compete for one Runner, and
two triggers to be run twice. The runs of the pages bound the acts of users, never the answers: the
properties are broken (by the mutants, and by the counterexamples below) with two or three acts, such as
ask, switch, confirm; the answers that arrive in any order between them are not bounded. A browser task
is a single runner; two chunks a layer and a buffer of one make the pump wait.

### Where the code does not keep what it says

The run `replace_lost_answer` checks FailureKeepsOriginal, "Any failure before the name switch restores
the original" (`upgrade.go:185`), and TLC finds it violated: the client goes away while the rename of the
original to its backup name is under way (l.262), and the daemon renames it all the same. The code takes
the rename for not done, and its rollback removes the new container without giving the name back: the
original is left under the backup name, and the error reports nothing. A stop that is carried out after its
client has gone (l.247) does the same to the run state and the addresses.

Further statements the code does not keep have a configuration each, which gives the counterexample
with `tlc -config <cfg> <MC module>`:

| Configuration | Statement | What happens |
|---|---|---|
| `ContainerUpgrade_listed.cfg` | DependentsRejoin: after a rollback the dependents that were running are restarted (`docs/container-upgrade.md:112`) | `networkDependents` lists them, with their state, before they are locked; one just being upgraded is listed as stopped, runs again when it is locked, and `restartDependents` skips it |
| `ContainerUpgrade_lost_stop.cfg` | StopsReported: "stopped reports whether the original was stopped, i.e. whether containers sharing its network namespace lost their network even if it was restored" (`upgrade.go:187`) | the stop is carried out although `ContainerStop` fails, `stopped` stays false, and the dependents sit in a dead namespace: nobody restarts them, the error does not name them |
| `ContainerUpgrade_self.cfg` | NeverStopsItself (`docs/self-update.md:3`, `upgrade.go:38`) | only a *target* that is phyless's own container gets a hand-off; as a dependent it is recreated in process |
| `TaskQueue_cancel.cfg` (MCTaskQueueCancel) | CancelStopsWatch: "取消任务会同时停止轮询" (`docs/self-update.md:51`, `taskQueue.ts:461`) | `abort()` of a request that is over fires no event |
| `AutoUpdate_starved.cfg` | NotOvertaken: "每 N 小时" (`docs/auto-update.md`) for each policy | `tick` runs the first policy that is due and looks again (`autoupdate.go:138`); one with an hour's period whose run takes the hour it may is due again at once, and those after it never run |
| `AutoUpdate_twins.cfg` | OnePolicyPerTarget: "每个目标…只有一条" (`docs/auto-update.md:27`) | `followAutoUpdate` renames a target to a name that has a policy |
| `BrowsePool_blank.cfg` | RetryCoversBlank: the comment of `Ls` (`pool.go:85`) | the entrypoint is busybox itself, so a blank volume makes the *start* fail, and a failed start is not retried |
| `FilesPage_target.cfg` | ActsOnWhatIsShown: no action may "silently target the new container" (`FileBrowser.tsx:78`) | `doDelete` reads path and handler after the confirmation (l.236), `doChmod` after its dialog; the route changes meanwhile, or an overtaken listing falls back to the parent |
| `FilesPage_viewer.cfg` | ViewerShowsItsFile: "Closing (or switching file) aborts the in-flight stream and drops the decoded text" (`TarTextViewer.tsx:15`) | the continuation of `save()` sets the saved text whatever file is open by then |
| `Session_policies.cfg` | PoliciesOfServer: "Every policy of the active Docker server" (`autoUpdate.ts:38`) | the settled switch starts the reload, and the continuation of the switch aborts it; the list keeps the previous server's policies, shown as 目标不存在 with a delete button |

More of the same kind has no run of its own, but shows in an exception or a hypothesis of a property:

- A stop whose answer is lost returns `stopped = false` (`upgrade.go:187`), and the dependents are not
  restarted: DependentsTold of ReplaceContainer is stated for attempts without lost answers, and
  DependentsServed leaves out those such a stop has cut off (`cut`) until the next upgrade of Main, or a
  restart of theirs, gives them a network.
- The daemon may leave a helper container behind by failing a create it carried out, or the removal after a
  failed start (`pool.go:281`): `stray` in NotStranded. Until phyless starts again nobody comes back for it.
- A finished task is brought back by a reload as "interrupted", or not at all, when the write that recorded
  its end was refused (`taskQueue.ts:146`) or overwritten by another window (`taskQueue.ts:22`): `current` in
  HistoryCurrent.
- The lock of an upgrade is on the ID (`upgrade.go:53`), which changes at the switch, so the replacement
  can be upgraded while the first upgrade still recreates the dependents (`docs/container-upgrade.md:104`
  says that upgrades of one container exclude each other). A dependent that has not been pointed at the
  replacement yet is not found by the second upgrade and may end on a dead reference: `unsure` in
  DependentsServed and ReferencesLive.
- A request served by the previous runtime during a reload wakes the previous Runner
  (`docker_runtime.go:72`), and the policy it saved is noticed only when the next one's sleep is over:
  `missed` in SleepsUntilDue and DueIsRun.
- Saving a policy drops the result of its last update (`autoupdate.go:193`), although "run results are
  kept" (`autoupdate.go:167`): `Put` does so, no property is about it.
- A store that is refreshed without being polled (`UsersPage.tsx:21`) does not hear that a task has
  settled: `LooseRefresh`, FALSE in the run and a hypothesis of two theorems.
- Session: signing in over a session shows the old user with the new token until `/me` answers; a
  mistyped password on `/login` while signed in ends the valid session (EndsForCause excepts it); other
  windows never hear of a switch; signing out with an active task starts a policies reload whose 401
  aborts the login page's setup read, and the login button stays disabled until a reload of the page.
- Workbench: a sub-tab picked while the page of a removed container is being left replaces that navigation,
  and the page stays, with the values of before the task (`route \notin gone` in Current); the redirect away from a sub-tab uses the previous container's inspect and may drop the
  restored sub-tab of the next (`ContainerDetailPage.tsx:161`); `saveResources` merges the previous
  container's host configuration and sends it to the new id; `remove()` uses the id of after the dialog; a
  tab closed while it is the destination of a pending navigation comes back (ClosedStaysClosed counts
  that as asked for).
- FilesPage: the tags of changed files are the previous directory's until the new ones arrive
  (`FileBrowser.tsx:148`); a save queued behind a rename of its file creates the old name again; a new
  inspect runs the viewer's effect again and drops unsaved edits (`Reinspect`).
- RemoteSearch: after a failed second page "load more" loads the third, and the second is skipped, against
  "appended page by page" (`RemoteImageSearch.tsx:96`); choosing the chosen repository again clears
  its tags and nothing reads them again; after a failed first page with a new filter, "more" appends
  that filter's second page to the old rows.
- PullForm: two keys of one registry can be picked (`PullOptions.tsx:36` says at most one) when a remembered
  server key is not known yet, and the pull uses the last one; picks loaded by a change of endpoint are not
  revealed (`RegistryAccounts.tsx:257`), and the pull goes anonymous; a late reveal writes a secret into
  a form that was closed to release it (`PullOptions.tsx:178`).
- BrowserPull: cancelling the tar reader does not cancel the fetch of a layer, as `imageLoadStream.ts:57`
  says, but only releases its lock.

### Fairness

- `ContainerUpgrade`: weak fairness of each task that has begun. Nothing obliges a task to begin.
- `TaskQueue`: weak fairness of the running pump, of the loop of `cancelActiveTasks()`, and of the end of each exchange and watch (watches
  are limited to ten minutes by the code). Users do nothing.
- `AutoUpdate`: weak fairness of each Runner and its run (bounded by `autoUpdateTimeout`), of the
  user's run, of the rest of a request and of a reload that has begun, and of time. It gives each *tick* its
  turn, and no policy: DueIsRun says that the first of those that are due has its turn, and the clock of
  the run (`MaxTime` 2 with two policies) is too short to show anybody starving. NotOvertaken is about
  that, on a longer clock, and fails.
- `BrowsePool`: weak fairness of each request: a goroutine runs on and a daemon call returns.
- `PollingResource`: weak fairness of the server's answer and its arrival; not of failures or events.
- `BrowserPull`: weak fairness of what settles an await (a fetch answers or fails, polling has its
  deadline), of the page's own callbacks (pump, socket events) and of the backend's reading. Nothing has
  to break, nobody has to cancel.
- `ReplaceContainer` and `FilesPage` have none: their properties are of what happens, not that it does.
- `Session`: weak fairness of the reads a start or a sign-in waits on (they are served and answered, or
  fail) and of the answer to the login.
- `Workbench`: weak fairness of a transition's commit and of the answer or failure of an inspect; tasks
  and users owe nothing.
- `RemoteSearch`: weak fairness of the lookups: the debounce fires, a lookup is answered or times out.

## 4. Proofs

The proofs hold for all values of the constants under the named assumptions of the modules:
`ReplaceAssumption` and `UpgradeAssumption` (finite sets of networks and of dependents; `Main` is no
dependent of itself), `PollingAssumption`, `QueueAssumption` (one slot, one stored task at least),
`AutoUpdateAssumption` (positive times and schedules), `PoolTimes` (`OpTimeout <= WriteTimeout <=
BoxLife`, the constants of `pool.go`), `FilesPageAssumption` (paths are sequences, the directory of
a file is one of the directories), `SessionAssumption` (there is an administrator, a server, a login
page), `BrowserPullAssumption` (an image has a layer, a layer a chunk; tasks and plans are of the kinds the
queue knows), `WorkbenchAssumption` (the ids of objects are no paths of lists), `FormAssumption` and
`SearchAssumption` (ids, addresses and references are told apart) and `StorageAssumption` (what a page finds
in `localStorage` is what a page of this code left there: one account an id, each under its endpoint). TLC
evaluates each of them in the run of its module. TLC agrees with every inductive invariant below on the
instance of its module's run.

Each proof has the same plan: `Init` implies the invariant, one lemma for each action says that it keeps
it, `Next` is split into these cases, and a last temporal step gives `Spec => []Inv`, from which the
properties follow.

**ReplaceContainer** (in ContainerUpgradeProofs). `ReplacementTyped`: every action keeps the types.
`NeverLost`, `OneWorkload` and `SuccessIsVerified` are not inductive: that the original still exists when
`Remove` has not run, that the original is down whenever the replacement may be up, and that the replacement
has the name when `Remove` runs depend on where the attempt stands. `PlaceInv` states this per step, for any
answers, lost ones included; `OriginalOrReplacement`, `NeverBothRunning` and `SwitchedIsVerified` follow
from it. What the code *knows* is `KnownInv`, which holds for attempts that are not `lossy`: an original
that was not stopped is as it was, a stopped one is down and remembered as such in both `stopped` and
`restoreNet`, and the rollback has restored whatever it has passed. `KnownCorrect` proves `[](lossy \/
KnownInv)`, and `FailureRestoresOriginal`, `StopIsReported` and `ImplementsAtomicReplace` (initial states
map to initial states, each step to a step of `AtomicReplace` or a stutter) rest on it. The run
`replace_lost_answer` shows that the case distinction cannot be dropped.

**ContainerUpgradeProofs.** Two layers. `LockInv`, for phyless anywhere, is the lock discipline: a task
between its locking and its end holds its container, after `LockDep` all its dependents, and one that
has not begun or has ended holds nothing. `LocksHeld` proves it and `NobodyUnderneath` rests on it. `DepsInv`
says where a dependent that is not served is accounted for: a task on Main has found everybody who may
sit in the namespace it is about to end (`Found`) and they stay as listed (`Kept`), unless it is unsure of
them; a container left in a dead namespace is in the hand of a task that will bring it back (`Served`), a
dead reference in the hand of one that will replace it (`Referred`); who was cut off by a stop that was reported as
failed is in `cut`, which only gaining a network or a new Main takes one out of (`CutStep`, and `StopEndsDeps` for a
stop that comes late); a task that would write the ID of
a Main that has been replaced meanwhile was seen by the task that replaced it (`LateIsKnown`). From it
come `DependentsKept`, `NoneStranded` and `UpgradesSound`. These three take the hypothesis `SelfIsMain`,
phyless runs in no dependent: as one it is recreated in process and stops itself, which is what
`ContainerUpgrade_self.cfg` shows, and nobody is left to bring the dependents back.

**TaskQueueProofs.** The difficulty is the pump within a pump. `QueueInv` says of the pumps on the stack
that all but the innermost are `Spent` (no slot or only blocked tasks left, whatever the inner one did), that the
innermost is `Exact` (its count and keys are those of the queue) or has nothing to do, and that the queue
is `Quiet`, nothing could be started, when no pump runs and none is suspended. The step from one to the other is `OneStart`:
each event frees one slot or one key, so the pump it causes can start only one task, or several of which
the first blocks the rest, and is spent when `start()` throws. `QueueSound` (each caller answered
once, no idle slot), `HistoryKept` (what a reload finds, for refused writes and a second window at any time: the
invariant `History` says of each entry in storage, and of each the other window holds, that it is no end this
page's task has not come to), `OldWorkIsOver` (no task of before a switch is started while the others are being
cancelled, nor later), `SlotsKept`
and `ImplementsKeyedPool` follow; the refinement maps `Settle` to `End` and a step of the pump to `Start`.

**BrowserPull** (in TaskQueueProofs). Whether an image is whole is a matter of counting. Of the chunks of
the tar that were read (`Produced`, a function of layer and position in which a layer listed twice counts
once), each is in hand, in the socket's buffer or in the daemon (`Counted`), so when the end of the archive
arrives behind them nothing can be missing. `Loading` says that an import belongs to the image resolved
last, all of it of one version of the tag, and that the runner waits for it; `Placed` ties the await the
runner is at to the first step that is left; `RequestsWell` says that a runner goes on from a request
only when that ended well, and from one handed to the helper only when that one ended well or stopped
phyless. `PullInv` joins these with the types. `ImagesWhole` and `CancelEndsPulls` are action
properties, `PullsAreSound` the invariant: a task shown as done did what it was asked to.

**PollingResource** (in TaskQueueProofs). `StoreTyped`, `TimerIsRight` and `SpinnerIsRight` are inductive together
with the types. `NoStaleValue` and `SettledIsVisible` need `FreshRead`: a current read in flight belongs
to a polling page and has seen, if it has been served, every task settled so far. It holds only if nobody
refreshes a store that is not polled (`~LooseRefresh`, a hypothesis of the two theorems): such a store has
no listener for tasks that settle.

**AutoUpdateProofs.** `AutoInv` joins the types, who owns a run, `Past` (nothing is dated later than now),
`RunningIsReal`, `ReadIsEarly` and `SleepsUntilDue`. The last is not inductive alone: a Runner computes its
sleep from what it read before, so what it read must trigger no later than what is stored by now. That
holds because triggers are monotone in the last start, and every write but a `Put` moves a policy onward;
a `Put` leaves a wake-up pending, and a Runner so told does not rely on what it read. `AutoSound`,
`NeverOversleeps` and the action property `StartsOncePerTrigger` follow. Least elements of sets of
naturals come from well-founded induction over a constant set.

**BrowsePoolProofs.** `PoolInv`: a box has one creator, is filed under its own key, and was given only to
requests whose deadline lies before its expiry; how far a creator has come says what its container is.
`NoRaceWithExit` and `NothingFailedOrStranded` follow; a container nobody is starting any more is gone, or in `stray`. `ReleaseInv` adds that a helper noted by a release
is past its creation or awaited (`ReleasesAll`). `RetryInv` holds while at most one box vanished, no volume was
lost and nothing is released: at most one box is lost, and whoever retries has let go of it and cannot
be given it again (`OneRetryIsEnough`). `PoolSound` joins them.

**FilesPage** (in BrowsePoolProofs). `FilesInv` has a part for each part of the page: a listing that is
ready is of the path and the instance shown, an editor's text is from the file it takes it to be, questions
and forms name a file, a queued save on an editor page is of the file its text was read from, a download
shown as done without an error wrote the whole file. `RowsAreOfThePath`, `SavesItsOwnFile` and `PageSound`
follow. That the page is at a place that exists when it falls back to the parent needs the assumption on
directories.

**SessionProofs.** What a click or an answer does to the window is a composition of pure operators (`Send`,
`Mount`, `CancelAll`, `DoLogout`, …), so their lemmas are stated for any window, any issued tokens and any
version of the runtime. `Good` says of such a window that its requests are honest (a 401 answers a token that is
not taken any more), that a start is alone and comes before everything else, that rows and reads of Docker pages
are of the runtime seen last or a later one, that nothing is under way that could sign somebody in
unless it was asked for (`Wanted`), and that without a user the page is the login. Tokens issued and
revoked elsewhere keep it (`StillFits`), at a start as well: what `loadSession` compares when its answer comes
(`auth.ts:41`) is what `NobodyComesBack` needs there, and its mutant (`MutantStarts`) breaks it. Each action is shown to be right in three ways at once: the
invariant is kept, a sign-in was asked for, a session ended for cause. The theorems are `SessionIsKept`,
`SessionSound`, `NobodyComesBack` and `NoSessionEndsByMistake`.

**SequenceLemmas.** What `Without` and the operators of the community modules for lists (append, insert,
remove, `IsInjective`) leave of a sequence: its elements, their distinctness, its length. The library's
induction theorems take an operator as a parameter, which the provers cannot instantiate, and `SelectSeq` is
opaque to the provers. What a recursive function computes is proved all the same, by descent: a
counterexample would have a least index (`LeastExists`, from well-founded induction over a constant set),
and the step to it from the one before excludes it.

**WorkbenchProofs.** `WorkbenchInv` adds to the types and labels `Fresh` (the page, and the answer on its way
to it, are no older than the last task on its container that settled, unless a task removed the container)
and `Tabbed` (the page shown has its tab; a closed tab that is still in the strip goes with the
transition under way, which does not lead to it). One action of the router runs several effects, so the
lemmas are about the effects (`TabSync`, `LabelEffect`, `LeaveOrRedirect`) at any path, query and value.
`WorkbenchSound` and `ClosedTabsStayClosed` follow. The proof found an error in the property: `Current`
was stated for every container's page and was violated with one more act of the user than the run allows
(MaxEvents = 4): the page of a container that is gone is to be left, but when a sub-tab picked meanwhile
replaces that navigation, the page keeps the values of before the task. `Current` now says so.

**RemoteSearchProofs.** `FormInv`, about PullForm, says that an account in the form is of the endpoint shown,
that the storage holds what a page may have left there, and that nothing is stored for an endpoint whose box
is not ticked; requests and writes under way name accounts that exist or may. `SearchInv` has a part for
each of the two panes, the details of the rows and the panel at rest. Its core is `Flying`: a request whose
answer would still be applied is the only one of its pane and asks for what is asked *now*. Every
action that changes the keyword, the repository, the endpoint or an account must therefore abort the
requests of that pane in the same step, which `Rerun` does, through the effects that follow those values. A
manifest is read for a row that is shown and pending, of the repository listed, which is not Docker Hub's
(`Details`); pages are counted by events, for the types. `AccountsKeptAsAsked` holds of the form with
the search beside it, whose actions leave the accounts alone; `SearchIsSound` needs both invariants.

**Model-checked only.** Liveness (`LocksComeBack`, `QueuedMovesOn`, `DueIsRun`, `WaitersTold`,
`SettledIsShown`, `Ends`, `LoginEnds`, `LeavesTheGone`, `ComesToRest`): the proof system does not
reason about fairness and ENABLED. Every other property of a passing run, safety invariant, action property
or refinement, is stated by a theorem. No module declares a RECURSIVE operator.

## 5. What is not modelled

Left out: byte streams (terminals, logs), registry and tar formats, calendar arithmetic, list pages and
forms that end in one task, handlers that are one Docker call or one update of `config.json`, start-up.
They have no interleaving a model would add to.

Abstracted: progress output, wording, audit entries and the contents of credentials everywhere; what an
image contains (an image is `verified` or not, a release number, or a version); the differences between
container and compose policies.

Not modelled yet, most useful first:

1. The pull of the server (`image_pull.go`): coordinator, producer and the cancel they share.
2. `docker_runtime.go`, `docker_settings.go` in the backend: select and edit with their undo against
   concurrent ones, composed with AutoUpdate's reload.
3. `users.go` on `store.go`: two requests at once on the last administrator; crash points of a write.
4. `changes.go`, `runs.go`: shared fetch, invalidation, budget, timers.
5. `self.go`, `compose.go`: one helper, its result, the lock per project and its hand-off; `audit.go`.
6. ContainerUpgrade: a user who starts or stops Main during the pull (`upgrade.go:225`); AutoUpdate
   composed with it, so that a run of the previous Runner meets the next one's (`docker_runtime.go:73`).
7. In the pages: an upgrade dialog whose environment candidates arrive while its warning is open; an
   auto-update dialog opened before the policies are there; the last tag of an image removed twice
   without its dialog (`ImageListPage.tsx:42`).

Hazards of the code that no property covers are listed with their lines in `PROJECT.json`.
