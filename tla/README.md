# Verification of freva-web-nextgen

TLA+ models of freva-web-nextgen, checked by TLC on small instances, and theorems
about them proved by TLAPS for every value of their constants.

The repository is a monorepo of browser packages. What it does that is hard to get
right is concentrated in three of them, and these are modelled:
`ts-oidc-auth-client`, which decides when a page may use a credential;
`browser-python`, which keeps Python interpreters, their files and their commands
alive across restarts, sleep and downloads; and the search of `databrowser`, which
shows answers to a query that has moved on since it was sent.

## 1. The system's parts

| Part (under `src/packages/`) | State it keeps | Operations, and whom it talks to | What is hard | What makes it correct |
|---|---|---|---|---|
| `ts-oidc-auth-client/src/session.ts` `SessionGate` | generation, blocks and which of them are retained, two counters | a lease at every entry point; block, release, retain, terminate, reset; called by the client only | four holders block independently; a block may be released by someone other than who took it | a lease once dead stays dead; every block has an owner; counters match what is in flight |
| `.../recovery.ts` `CredentialRegistry` | reservations, candidates, pending revocations, cancelled reservations | reserve before a request that mints, register its answer, release, retain, forget, drain | drained inside a queued storage step, long after the request began | no credential known to be alive is forgotten; a live operation is never cancelled |
| `.../client.ts` `PyOidcAuthClient` | the two above, memory mirror, binding to a session, the queue of storage mutations, refresh in flight, peer operations | `login()`, `handleCallback()`, `getToken()`, `refresh()`, `logout()`, messages of other tabs | every await: a logout, a login, a rotation elsewhere may come between; partial failure of clear and revocation; listeners that call back | nothing of an ended session is served, stored or returned; only the session meant is ended |
| `.../crosstab.ts` | channel, id of the tab | BroadcastChannel messages `session-cleared`, `logout`, `token-updated`; `navigator.locks` | messages come late, twice, out of order, or not at all | a newer session survives a stale message |
| `.../storage/*.ts` | a credential, or a cache of the server's | load, save, clear; each may be slow and fail | a pull in flight answers after a clear | the cache never outlives a clear |
| `.../token.ts`, `jwt.ts`, `url.ts`, ... | none | parsing and validation | nothing concurrent | - |
| `browser-python/src/session/slots.ts` `createSlotBroker` | the slots of a page, who holds which, the chain of reclaims | reserve, claim, release; asks idle holders, in this document or another, to sleep | the holder asked may have changed before it answers, and a third session takes the slot | no slot is lost, and none is held twice |
| `.../session/checkpoint.ts` | a directory per sleeping session in OPFS, the Web Locks that own them | begin, save each file, manifest, read, discard, sweep | the page goes away between two steps; a new page sweeps | a manifest means a complete checkpoint |
| `.../session/controller.ts` `SessionController` | the state of a session, its pending operation, its slot, its engine | start, sleep, wake, restart, close; drives the three parts above and the engine | crash and close at every await | a session wakes with the files it fell asleep with |
| `.../browser-python.ts` `BrowserPython` | the worker, the attempt to boot it, the queue of submissions, requests in flight | start, restart, dispose, push, run, cells, imports, quiesce; messages to the worker | a command's continuation runs when the interpreter it was meant for has gone | order of the program, in the interpreter it was written for |
| `.../browser-python.ts` `streamArtifact()`, `artifact-stream.ts` | downloads in progress, their leases, the reserved memory | lease requests to the worker, writes to a destination | cancellation, restart and death meet replies on their way | a closed file is whole; leases are given back |
| `.../worker/opfs-workspace.ts` | a pool of OPFS slots, file nodes, descriptors, leases, an import | every file system call of Python; list, delete, import, lease of the page | any storage call fails; files are replaced while open | no slot is lost; a file offered for download is whole and frozen |
| `.../worker/*.ts`, `.../python` | the queue of the worker | serves one request after the other | - | seen through the engine and the downloads |
| `databrowser/src/index.ts` | the query, rows, facet counts, the flavour and its map, the two lists of the user | searches, pages, recounts; `/overview`, `/flavours`; sign-in and sign-out | answers overtaken by newer requests; lists that arrive after what they were needed for | what is shown belongs to the query that is shown |
| `dataset-tree`, `data-inspector` | the tree or the dataset shown | requests to an object store | an answer overtaken by a newer request | what is shown belongs to the last request |
| `jupyterlite-*` | chat and kernel sessions | external services, the engine of `browser-python` | streams cut off | - |
| `portal-builder`, `portal-rst-renderer`, `freva-client-terminal`, `freva-badge`, `cosmos-backdrop`, `stac-browser` | none that outlives a call | static generation, user interface | nothing concurrent | - |

`PROJECT.json` lists every part with its status and, under `hazards`, the places where
something can go wrong that a unit test hardly reaches; each names the property that
would catch it, or says why none does.

### How the parts of the authentication client interact

Each public operation captures a lease of the gate at its entry. Between two awaits
it runs alone; at every await the tab may run anything else. Credentials come from
`POST /token` (a rotation: the old one dies) and from `GET /callback`. Saves and
clears go through one queue (`runStorageMutation`), reads do not. A logout takes a
block at once, drains the registry and clears storage inside one job of that queue,
revokes what it took, and releases every fail-closed block if all of that worked. A
terminal 401 does the same on a smaller scale (`endSessionLocally`). A message of
another tab takes a block and queues a clear; the continuation of that clear may run
after a local logout or a login has moved on, which an epoch tells.

### How the parts of browser-python interact

A page, or each frame of a page, has controllers. To start or wake, a controller
reserves a slot from the broker, which may put another controller's session to sleep
and waits for it to say so. It then builds an engine, the engine a worker, and the
worker a workspace on OPFS. Waking copies the checkpoint's files into that workspace
before the front end is given the engine; sleeping quiesces the engine, copies the
files out, writes the manifest, and only then stops the worker. The front end talks
to the engine alone: commands go through one queue to the worker, which runs one at a
time; a download asks the worker for a lease, which freezes the file in the
workspace, and pulls chunks past the queue. A restart, or the death of the worker,
rejects everything in flight at once; the continuations run afterwards, one by one,
and the listeners of the states announced may call the engine again in between.

### How the parts of the data browser interact

Everything that changes the query ends in `commitSearch()`, which bumps a revision and
sets a timer; the timer sends a search. An answer counts if its request is the newest
and its revision is the current one. A page with a base scope translates that scope
by the map of the flavour, which `/flavours` brings: until then a search in a custom
flavour is held back. `/overview` and `/flavours` depend on the user; any request's
token lookup may notice that the user signed in or out, and then both are loaded
again. Their answers change the flavour, the map, the address bar, and so the query.

## 2. The modules

| Module | Models | Code |
|---|---|---|
| `SessionGate` | the gate as a value, one operator per method | `session.ts` |
| `CredentialRegistry` | the registry as a value, one operator per method | `recovery.ts` |
| `AuthClient` | one tab: its variables, one action per step from await to await, the server, the other tabs | `client.ts`, `crosstab.ts` |
| `AuthClientProps`, `MCAuthClient` | its properties; what TLC checks, symmetry | |
| `AuthClientProofs` | lemmas about the operators of the gate and of the registry; types | |
| `LeaseProofs` | leases, cancellations, blocks and the gate's counters | |
| `CredentialProofs` | nothing of an ended session is read or returned; custody; newer sessions are spared | |
| `WorkspaceProofs` | the four properties of the workspace | |
| `TransferProofs` | a closed destination is whole; it is settled once; leases have an owner; the budget | |
| `SessionsProofs` | the four invariants of the sessions, and that they implement `SessionPromise` | |
| `EngineProofs` | the four invariants of the engine, and the order of programs | |
| `DatabrowserProofs` | what is shown is of the current query; lists of the current user | |
| `SlotBroker` | slots and the calls of `reserve()` | `session/slots.ts` |
| `CheckpointStore` | the checkpoint directories and their owners | `session/checkpoint.ts` |
| `SessionController` | the sessions of a page over both; extends the one, instantiates the other | `session/controller.ts`, `engine-sessions.ts` |
| `SessionPromise` | what sleeping promises the user of one session: the abstract specification | |
| `MCSessions` | properties, the refinement mapping, symmetry | |
| `Engine`, `MCEngine` | boots, commands and the worker; properties | `browser-python.ts`, `engine-sessions.ts` |
| `ArtifactTransfer`, `MCTransfer` | downloads; properties | `browser-python.ts`, `artifact-stream.ts` |
| `Workspace`, `MCWorkspace` | files, slots, leases, imports; properties | `worker/opfs-workspace.ts` |
| `Databrowser`, `MCDatabrowser` | search and lists; properties | `databrowser/src/index.ts` |

`SessionController`, `Engine`, `ArtifactTransfer` and `Workspace` are one system, cut
where the code has an interface that both sides can be held to: a session sees of the
engine its state, whether it is quiesced and which files it has; a download sees of
the workspace that a leased file does not change, which `Workspace` checks as
`LeasedIsFrozen`; the engine sees of the worker that it serves one request after the
other.

### `AuthClient`: its state and the code's

| Variables | In the code |
|---|---|
| `gate`, `registry` | `gate`, `credentials` |
| `recoveryBlocks` | `recoveryBlocks`; the blocks of `logoutFailedBlock` and `pendingRevocationBlock` are known by name |
| `storage`, `degraded` | what `TokenStorage` holds, `degraded` |
| `binding`, `established`, `clock` | `currentSessionVersion`, `sessionEstablishedAt`, and the time, which advances when this tab establishes a session |
| `txn` | the login transaction in sessionStorage |
| `queue`, `running` | the promise chain `storageMutation`; whether its head has started |
| `op` | the local variables of each call, from its entry to its answer |
| `logout` | `logoutInflight` and the locals of `runLogout()` |
| `tracked`, `retired`, `peerEpoch`, `settling` | `peerOperations`, `retiredPeerOperations`, `peerEpoch`, and the continuations of peer clears that are due |
| `minted`, `live`, `peer` | the server's credentials; what the messages of the other tabs' logouts say |
| `bornIn`, `ended`, `calls` | history, for the properties and the bounds only |

An operation goes through program counters named for what it waits for
(`reading`, `loading`, `locking`, `reloading`, `posted`, `saving`, ...) or for the
continuation that is due (`read`, `loaded`, `answered`, `saved`, ...). The action
that leaves a counter is everything the code does up to the next await:

| Code | Actions |
|---|---|
| `getToken()` | `GetTokenCall`, `ReadStorage`, `GotToken` |
| `refresh()`, `doRefresh()` | `RefreshCall`, `ReadStorage`, `Loaded`, `LockAcquired`, `ReadStorage`, `Reloaded` |
| `postRefresh()`, `postRefreshExchange()` | `Serve`, `Answered`, `Disowned`, `Dropped`, `ReadStorage`, `Rechecked`, `Announced` |
| `persist()` | `StartSave`, `FinishSave`, `UndoSave`, `Saved`, `SaveFailed` |
| `endSessionLocally()` | `EndSession` in `Reloaded` and `Rechecked`; `StartEnd`, `FinishEnd`, `EndRevoked` |
| `beginLogin()`, `login()` | `BeginLogin`; `LoginCancelled` when a listener calls `logout()` |
| `handleCallback()` | `CallbackCall`, `Serve`, `Answered`, ..., `Announced` |
| `logout()`, `runLogout()` | `LogoutCall`, `StartLogoutClear`, `FinishLogoutClear`, `LogoutRevoked`, `LogoutSettled`, `LogoutFinished` |
| `onCrossTab()` | `OnSessionCleared`, `OnLogout`, `PeerClear`, `PeerClearSettled`, `PeerLogoutSettled`, `OnTokenUpdated`, `TokenUpdated` |

### Abstractions

- A credential is a number, in the order the server mints. Its access/refresh pair,
  expiry, fingerprint and claims are not told apart; a branch on one of them (is the
  token fresh, may it be refreshed, does the response parse) is a free choice.
- A block is named for its holder instead of being a fresh symbol; no holder takes a
  second one while it has one.
- Continuations that wait for nothing run before the network and other tabs are
  heard again, as microtasks do (`MicrotaskDue`). Storage may be as fast as a
  microtask or as slow as it likes.
- Coalescing of refreshes (`refreshWithOutcome`) is the guard `MayRefresh`: one
  rotation at a time per generation; the callers that share it add nothing.
- A listener that calls `logout()` from an event is a `LogoutCall` at `announcing`,
  between the event and the check that follows it; from `login-started` it is
  `LoginCancelled`.
- Another tab's logout is one step that may read, clear and revoke the shared
  credential, after which its messages may be delivered any number of times, in any
  order, or never. Where storage is per tab it does not touch this tab's.
- The server may rotate and lose the answer, refuse, stay silent, or forget a
  credential at any time.

### `SlotBroker`, `CheckpointStore`, `SessionController`

| Variables | In the code |
|---|---|
| `scoped` | whether the sessions are frames with a document each that share slots through `navigator.locks`, or live in one document with a table of its own |
| `held`, `issued` | the holders entered by `held()`, and the identity of a reservation (a counter here, a random id there) |
| `resv` | the locals of each session's call of `reserve()`: waiting behind `reclaiming`, asking the candidates, waiting for one |
| `disk`, `owner` | the checkpoint directories in OPFS, which outlive pages, and the Web Lock on each |
| `ctl` | the fields of a `SessionController` and where `#pending` and, apart from it, `close()` are suspended |
| `itp` | the engine it built: its state, whether it is being disposed, attached to the front end, quiesced; whether something submitted has not begun to run (`typed`) and whether what the pending operation asks is queued behind it (`behind`); the files of its workspace |

| Code | Actions |
|---|---|
| `reserve()`, `reserveOrReclaim()`, `sleepHolder()` | `ReserveCall` in the caller; `TakeOrGather`, `Decline`, `AskToSleep`, `GiveUpWaiting`, `RetryTake`, `Exhausted` |
| `start()`, `wake()`, `#boot()` | `Start`, `Wake`, `DeadEngineGone`, `SlotToBoot`, `SlotTooLate`, `NoSlotToBoot`, `ManifestRead`, `Booted`, `FileRestored`, `Restored`, `StarterDone`, `CheckpointDiscarded`; `ReadFails`, `RestoreFails`, `StartFails`, `Unwound` |
| `restart()` | `Restart`, `SlotToRestart`, `NoSlotToRestart`, `Restarted`, `RestartDone`, `RestartFails` |
| `sleep()`, `quiesce()` | `Sleep`, `QuiesceAsked`, `Quiesced`, `SleepRefused`, `Listed`, `Begun`, `FileSaved`, `ManifestOpened`, `Committed`, `FellAsleep`, `SaveFails`, `StayedAwake` |
| `close()` | `Close`, `CloseDisposed`, `CloseDiscarded` |
| `#open()`, `#submit()`, `#whileBusy()` of the engine | `Type`, `RunCode`, `CommandDone`, `CodeEnds` |
| `onEngineState()`, the worker, the browser | `RunCode`, `CodeEnds`, `WorkerDies`, `WorkerGone`, `PageKilled`, `Swept`, `Damaged` |

A file is its name together with its bytes; digest, size and seal are the one fact
that a stored file, or the manifest, was damaged. The offer of a holder of another
document may or may not arrive in the window in which offers are gathered.
`PageKilled` is a crash at any point: the locks go, the directories stay as they
are. A document that was killed is not opened again, but its checkpoints may be swept
by any other.

The front end can submit to whatever engine it has attached. `#open()` looks whether
the engine is quiesced at that moment and never again; what was submitted waits for its
turn, uncounted by `executions()`, and runs when the queue comes to it, in whatever
state the session is by then. It may be code, or a command that is never counted
(`deleteArtifact()`, `clearBuffer()`). What is submitted before the last of it has
begun is one piece here, and what is submitted while code runs is submitted when the
code has ended: it could not begin before, and nothing looks at it. The starter and the listings of `quiesce()` and `sleep()` are
submissions too: they wait while `behind`. A cell or an import counts from its call, so
a checkpoint that meets one is refused earlier than the model has to; the one gap, while
the cell's module loads, is in `Engine`. A task that code leaves on Python's event loop
is not modelled.

### `Engine`

| Variables | In the code |
|---|---|
| `eng` | `#state`, `#worker`, `#startPromise`, `#continuationOwner`, `quiesced` |
| `boot` | the attempts of `#boot()`: waiting for `ready`, for the startup script, or with a continuation due |
| `op` | `#submissions` and the locals of each command, from its submission to its promise; also the request table |
| `wire` | requests the worker has not run, replies the page has not read |
| `buffer`, `ran` | the partial statement in the interpreter's console, and what Python executed last |

| Code | Actions |
|---|---|
| `start()`, `restart()`, `dispose()` | `Start`, `Restart`, `Dispose` |
| `#boot()`, `#failStart()` | `InterpreterReady`, `StartupRan`, `StartupFailed`, `StartTimesOut`, `BootRejected`, `BootSuperseded`, `BootSettles` |
| `#onFatal()` | `WorkerDies` |
| `#submit()`, `push()`, `run()`, `executeCell()`, `clearBuffer()`, `deleteArtifact()`, `artifacts()`, imports, `quiesce()` | `Submit`, `Turn`, `Refused`, `Handed`, `Abandoned`, `Posted`, `Orphaned`, `ReplyRead`, `RejectionRead`, `Settle`, `Unquiesce` |
| `cancelQueuedCells()` | `CancelQueuedCells` |
| the worker | `WorkerRuns` |

`#generation`, the worker and its `WorkerSession` live and die together: they are one
number, the boot. A cell and an import (`Lazy`) are built by a module that is imported
when their turn has come: between `Handed` and `Posted` the command is bound to an
interpreter, is no longer a queued cell and is not yet counted; the interpreter may be
replaced meanwhile (`Orphaned`), or the module fail to load (`Abandoned`). JavaScript
runs to completion, so a message or a timer is taken
only when no continuation is due (`Quiet`), but status listeners run inside
continuations, so the page's own calls may come between any two of them.

### `Workspace`

`slot` and `dirty` are `SlotPool` and whether the file behind a slot is empty; `file`
the nodes with their counts of descriptors and flags; `lease` and `imp` the open
leases and the import. There is an action for every callback of the file system that
changes them (`Create`, `OpenRead`, `OpenWrite`, `Truncate`, `Dup`, `Write`, `Close`,
`Unlink`, `Rename`) and for every request of the page (`Delete`, `OpenLease`,
`CloseLease`, `BeginImport`, `WriteImport`, `CommitImport`, `DropImport`,
`SizeUnreadable`), each with the failures of the storage below it (`TakeFails`,
`ReadFails`, short writes, flushes that fail, slots that cannot be emptied). Bytes
are four facts about a file: bytes were lost, an import is not whole, the bytes
changed after the generation was last bumped, or since a lease was taken.
Directories hold no slot and are left out.

### `ArtifactTransfer`

`worker`, `wire` and `reply` are the current worker with its open leases and the
messages in each direction; `reserved` is `#reservedBytes`; `tr` holds the locals of
each `streamArtifact()`. `Start` is the part up to the first await, `Turn` the lease
request when the queue of the engine comes to it, `Opened`, `Pull`, `Wrote`,
`WriteFails`, `Interrupted`, `Closes`, `AbortEnds` the loop from await to await with
its cleanup, `Serve` the worker, `Receive` the page's handler of replies with
`claimLease()`, and `Cancel`, `Restart`, `WorkerDies` what may come at any time. A chunk is
its position and the interpreter it was read in.

### `Databrowser`

| Variables | In the code |
|---|---|
| `cfg` | the configuration: own flavour, base scope, whether the first search waits for a map, what the server offers with and without a user |
| `db` | `state` and the closure variables of `mountDataBrowser()`: query, rows, facet counts, revision, ids, timer, requests under way, `heldScopedSearch`, `flavoursSettled`, `urlImportsReconciled` |
| `changes` | bound on the user's changes |
| `load` | the loader of each list, `keepInStep()` |
| `auth` | what the last token lookup found; bound on sign-ins and sign-outs |

Event handlers call each other and run to completion, so each handler is an operator
from one value of `db` to the next, named after the function (`RunSearch`,
`RunRecount`, `CommitSearch`, `ReconcileUrl`, `SetFlavour`, `Overviewed`,
`FlavoursLoaded`, ...), and the actions are the events: `ChangeQuery`,
`ChooseFlavour`, `LoadNextPage`, `RetrySearch`, `SearchDue`, `RecountOverview`,
`SearchAnswered`, `RecountAnswered`, `NoteSignedIn`, `LoadSent`, `LoadFailed`,
`LoadStale`, `LoadApplied`.

Request ids and revisions only grow and are only compared. An answer that its guard
would drop now is dropped whenever it comes, so it is not waited for, and of the
numbers only the order is kept (`Rest`). In the same way a list keeps, of the
generation a load began with and was sent with, whether it is still the current one.
A query is a selection, a flavour, a key of the address bar and the map its scope is
translated with; time, box and the terminal are further ways to change the selection.

## 3. What the runs check

### 3.1 The properties

The authentication client, in `AuthClientProps`:

- `CutOffStaysCutOff`: an operation that a logout, a terminal 401, a peer or a login
  has cut off is never valid again, in whatever order blocks are released.
- `CancelledIsDead`: a drain cancels only operations whose lease is dead.
- `EndedStaysUnreadable`: while the tab serves anything, neither storage nor the
  mirror holds a credential of an ended session.
- `ReturnedInSession`: what a call returns was minted neither for a session that has
  ended nor for one begun after the call.
- `GateAccounting`, `NoOrphanBlock`: the counters match the transitions in flight;
  every block has an owner that can still release it.
- `KeepsCustody`: a credential the page accounts for is accounted for until it is
  dead or is the one it serves.
- `NewerSessionSurvives`: a peer's message does not clear a session this tab
  established after the peer's operation began.
- `TransitionsSettle`: a logout, or the end of a session, that has begun comes to an end.
- `RefreshersSettle`: a call of `refresh()` or `getToken()` is answered, through the
  lock, the rotation, the storage queue and the end of its session, unless the body of
  an answer never ends, or the lock is held by another tab or behind such a body.

Sessions, in `MCSessions`:

- `NothingRunsOnceListed`: from the moment the files to save are listed nothing runs in
  the interpreter and nothing waits in its queue, whatever was typed while `quiesce()`
  waited. Before that moment code may run in a session that says `sleeping` (3.4).
- `NoSlotLeaked`, `WithinCapacity`: a session at rest holds a slot only for an
  interpreter, none holds two, and there are no more interpreters than slots.
- `ManifestMeansComplete`: a checkpoint with a manifest has every planned file.
- `FilesKept`: the refinement, see 3.2.
- `OperationsEnd`: every operation ends unless it waits for code for ever (`HeldUp`): the
  starter, what the starter or a listing is queued behind, or either of these in the
  session it has asked to sleep. `close()` ends whatever runs.

The engine, in `MCEngine`:

- `InProgramOrder`: Python runs the page's commands in the order they were submitted,
  none twice, whatever is restarted in between.
- `NeverRetargeted`: a command written for one interpreter never runs in the next.
- `OneStatement`: the line buffer holds lines of one console.
- `StateIsTrue`, `NeverStuckBusy`: the state shown is that of an interpreter that is
  there, and "busy" is never left standing.
- `EveryCommandSettles`, `EveryStartSettles`.

The workspace, in `MCWorkspace`: `SlotsAccounted` (a slot is taken by exactly one file
that exists or is open), `FreeSlotsAreEmpty` (no file inherits another's bytes),
`ReadyIsWhole` (a file offered for download lost nothing, is not half imported, and
its generation tells its bytes from earlier ones), `LeasedIsFrozen`.

Downloads, in `MCTransfer`: `ClosedIsWhole` (a destination that was closed, not
aborted, has every chunk once, in order, from one interpreter), `SettledOnce`,
`LeaseOwned`, `OnlyOwnLease` (lease ids start again with every worker), `WithinBudget`,
`CancelledEnds`, `LeasesReturn`.

The data browser, in `MCDatabrowser`: `AnswersFitQuery` (an answer that changes what is
shown is one for the query as it is when the answer lands), `ShownIsCurrent` (without a
sign of work under way, rows and counts belong to the query shown), `RowsOfOneQuery`
(rows are the consecutive pages of one query), `ListsInStep` (a list at rest is of the
current session or failed in it), `SearchSettles` (the spinner never stays).

### 3.2 The runs

| Run | Instance | Checks |
|---|---|---|
| `rotation` | a refresher, a callback, 2 credentials, 4 calls | `CutOffStaysCutOff`, `CancelledIsDead`, `EndedStaysUnreadable`, `ReturnedInSession`, `GateAccounting` |
| `custody` | two refreshers, a callback, `token-updated`, 3 credentials, 3 calls, no `navigator.locks`, logging in only without a session | `TypeOK`, `KeepsCustody` |
| `peers_shared` | a callback and a peer's logout on a shared credential | `NoOrphanBlock`, `NewerSessionSurvives`, messages recognised by fingerprint |
| `progress` | two refreshers, 2 credentials, 3 calls, `navigator.locks`, under fairness | `TransitionsSettle`, `RefreshersSettle` |
| `sessions` | two sessions, one slot, a file, 3 grants | `NothingRunsOnceListed`, `NoSlotLeaked`, `WithinCapacity`, `ManifestMeansComplete`, `FilesKept` |
| `sessions_end` | the same without files, 2 grants, under fairness | `OperationsEnd` |
| `engine` | 3 commands of 6 kinds, 2 boots, 2 consoles, a startup script | `InProgramOrder`, `NeverRetargeted`, `OneStatement`, `StateIsTrue`, `NeverStuckBusy` |
| `engine_end` | 3 lines or runs, 2 boots, under fairness | `EveryCommandSettles`, `EveryStartSettles` |
| `workspace` | 2 names, 2 slots, 3 nodes, 2 leases, 3 descriptors of a kind | `SlotsAccounted`, `FreeSlotsAreEmpty`, `ReadyIsWhole`, `LeasedIsFrozen` |
| `transfer` | 2 downloads of up to 2 chunks, windows of 1 or 2, a budget of 3, 2 workers | the seven properties of downloads |
| `databrowser` | three pages, see below | the five properties of the data browser |
| `v_superseded_boot` | as `engine` | `SuccessorKept`, which the code violates (3.4) |

Each property has a mutant in `PROJECT.json`: an operator ending in `_<what is
wrong>` beside the one it replaces, with which the run fails.

**The refinement.** `FilesKept` says that for each session the sessions module
implements `SessionPromise`. There, a session's files are in one of five places: with
nobody, with a live interpreter, kept, handed back, or given up by closing. `MCSessions`
maps the state to it: the files are kept from the moment the manifest is on disk,
handed back when the front end gets the woken engine, and live once the wake is over.
Files that are kept go only by `Shut`, and come back only as they were saved, unless
the stored copy was damaged: then the wake must fail. Everything the broker, other
sessions, sweeps, failed wakes and crashes do must be a stutter of it, or one of its
steps.

Further configurations, not among the runs of `PROJECT.json`:
`custody_deep` (4 calls, no `token-updated`: `KeepsCustody`, `ReturnedInSession`),
`two_peers` (two overlapping peer logouts: `GateAccounting`, `NoOrphanBlock`),
`peers_per_tab` (a refresher, a callback and a peer's logout, storage per tab, under
fairness: `TransitionsSettle` with the clears that other tabs ask for, and
`RefreshersSettle`), `sessions_types` and `engine_types` (type invariants), and fourteen
(`v_*`) that show the disagreements of 3.4.

### 3.3 Bounds and fairness

**Bounds of the authentication client.** `MaxCalls` bounds the calls of the
application, `MaxTokens` what the server mints, `MaxTracked` is the registry's capacity
(a parameter of the code, taken as 2 so that it is reached). Four calls are a refresh
cut off by a logout that is followed by a login and its callback, the longest story
the properties tell; the shorter runs leave out the login or begin at its callback.
In `progress` three calls are a refresh, a login that begins a new generation, and a
second refresh: it waits, with a lease that is valid, for the lock that the first holds
over its rotation and its save. The page opens with or without a stored credential and a
login transaction, so the stories need not be built up. `custody` assumes (`LoginOverSession = FALSE`) that the
application calls `handleCallback()` only without a session: over a live one it
overwrites a credential in storage that nobody has revoked, and `KeepsCustody` does
not hold.

**Bounds of browser-python.** `MaxGrants` bounds the slots granted before a session may
ask again: with one slot and two sessions, three grants are a start, a reclaim and the
first session's wake. One file suffices to tell complete from incomplete and kept from
lost. `MaxOps` and `MaxBoots`: three commands are one that is running, one that waits
for it and one that is behind both; the second boot is a restart, or a start from a
listener of the first. In the workspace three nodes are a file, the one that replaces
it and an import; two slots are reached. Two downloads of a budget less than the sum
of their windows meet each other's reservation and, over two workers, each other's
lease ids; two chunks have an order.

**Bounds of the data browser.** Three pages begin: one with a base scope in a custom
flavour, whose map is late and also overrides a baked one; one with a base scope whose
link asks for a flavour of the user's; and one in the user's own index with a parameter
of the host page in its address. Each has its own bounds on changes of the query and
on sign-ins and sign-outs. Two pages of a result are enough to splice.

`CHECK_DEADLOCK` is off in every run: when its calls are spent and nothing is in
flight a page stops, as it should.

**Fairness.** What each fair specification owes is what the code's own scheduling
gives, and nothing is ever owed by the user:

| Run | Assumed | Because | Not assumed |
|---|---|---|---|
| `progress`, `peers_per_tab` | continuations run, storage answers or rejects, the headers of `/token` come or it is aborted; the lock comes free, where this tab is the only one | promises, the timer `timeoutMs`, the order of `navigator.locks` | that the body of an answer ends: the timer is cleared when its headers are in (`client.ts:1410`), before `res.json()` (1465). That another tab lets go of the lock: that wait is unbounded (1307). An answer to `GET /callback`, which has no timer: no progress of a callback is claimed |
| `sessions_end` | the steps of an operation, `close()`, the broker's steps, the end of `disposeAsync()`; the engine's queue takes up what is next when nothing runs | promises and timers; strong fairness of the broker because a session that waits for the chain of reclaims gets its turn, first come first served, although its turn is over and due again | that running code ends, the starter included (`controller.ts:330`, 171: no timer), so nothing queued behind code is owed; that a file becomes readable |
| `engine_end` | continuations, the worker's answers, the boot's timeout, an outcome of the startup script | promises, `startTimeoutMs` | that the page restarts or disposes anything; Python code that runs is assumed to end. Its commands are lines and runs, so that nothing is assumed of the import of a module |
| `transfer` | cleanup, the turn in the engine's queue, the worker and the reading of its replies | promises and the timer of `finish()` | anything of the destination, or of the caller |
| `databrowser` | timers fire, searches and loads are answered or fail | `fetch` settles | that the user retries; that recounts are answered |

### 3.4 Where the code and its texts disagree

One run of `PROJECT.json` expects a violation, and is its finding.

**`v_superseded_boot`** (`SuccessorKept`). The worker dies while the engine loads.
`#onFatal()` rejects what is pending, forgets the start and announces `error`; a
listener calls `start()`, which builds a new worker. The first boot's continuation runs
next, rejected with `worker-failed` and not `restarted`, so `#failStart()` goes on and
tears down the new worker, although its comment (`browser-python.ts:1232`) says that
the worker belongs to the successor. The second start ends by its timeout.

The configurations below are kept beside it; each ends in the trace told here.

| Configuration | Property | The story |
|---|---|---|
| `v_stale_null_read` | `OnlyOwnSessionEnded` | a refresh, cut off by a logout while it reads storage under the lock, finds nothing and ends the session established meanwhile (`client.ts:1316`) |
| `v_stale_binding` | `NewerSessionSurvives` | a read begun before a login rebinds the tab to the old session after the callback; a late message about it clears the new one (`client.ts:2776`) |
| `v_recheck_mirror` | `RecheckReturnsWinner` | a 401 for the credential of the memory mirror returns the older, dead one that is still in storage (`client.ts:1436`) |
| `v_unreadable_recheck` | `OnlyRejectedCleared` | a 401 whose re-read of storage fails clears the credential another tab has rotated into it |
| `v_logout_orphan` | `LogoutLeavesNothingUntracked` | a logout completes while the registry no longer, and not yet again, knows an orphan that is being revoked (`client.ts:2363`) |
| `v_failed_restart` | `NoInterpreterWithoutSlot` | a restart succeeds, its starter fails: the slot goes back, "no live interpreter" (`controller.ts:175`), but the interpreter lives, and another session gets the slot. `WithinCapacity` leaves crashed sessions out for this reason |
| `v_closed_checkpoint` | `ClosedKeepsNoCheckpoint` | a session is closed while it falls asleep: `close()` deletes the checkpoint (`controller.ts:271`) while its manifest is being written, the browser refuses, and the checkpoint stays until another page's sweep |
| `v_quiesced_run` | `QuiescedIsIdle` | `quiesce()` looks, finds nothing counted in the queue, and holds the engine; a run that a listener submitted behind an uncounted command passed `#open()` (`browser-python.ts:351`) before that and executes after it |
| `v_sleeping_run` | `NoCodeWhileSleeping` | `sleep()` is "refused - and nothing changes - when code is running" (`controller.ts:183`): the line typed behind an uncounted command while `quiesce()` waits for its list begins to run when the session says `sleeping`. Its files are saved all the same, since the listing goes behind it (`NothingRunsOnceListed`); a file it leaves open is not in that list, and is lost |
| `v_startup_first` | `StartupFirst` | a command submitted before any worker existed waits for the first boot; a `ready` listener restarts; the command's continuation posts it to the second worker, which runs it before the host's startup code has run there (`browser-python.ts:1184`) |
| `v_outlived_owner` | `RefusedOnlyMidStatement` | a push is answered "incomplete", and a listener restarts before its continuation runs, which then names that console as mid-statement in an interpreter that has no statement: the other console's lines are refused |
| `v_ready_dead` | `ReadyHasInterpreter` | a session that falls asleep cannot be saved; its worker dies while what was written is removed, when the state is not a live one (`onEngineState()`); the session then says `ready` |
| `v_scope_key` | `ScopedRequestsKeyed` | a search in a custom flavour must not go out "under the wrong key" (`databrowser/src/index.ts:1282`); `commitSearch()` sees to that, but a recount, the Retry button, the next page and a timer set before a switch of flavour do not ask |
| `v_linked_facet` | `LinkedFacetKept` | `/overview` fails before the first search lands: the static names of freva are taken as the vocabulary although the comment (`index.ts:1211`) says only if both failed, and a real facet of a custom flavour is dropped from the link |

Seen while reading and modelling, without a configuration of its own:

- `session.ts:96-99` and section 21.6 of `docs/SPEC.md` say that a retained block
  admits a login; `assertLoginAllowed()` refuses it, as its own comment and section 22
  say.
- The state `error` is "recoverable only by restart()" (`browser-python/src/types.ts:104`),
  but `start()` recovers it too.
- A queued cell "can be cancelled" by "the cell's own `signal`" (`browser-python.ts:476`);
  `executeCell()` reads none.
- The release that `quiesce()` returns belongs to an engine, not to an interpreter: one
  kept over a restart lifts the next quiesce (`engine-sessions.ts:198`).
- A cell whose module is still loading is in neither of the two counts of
  `executions()` (`browser-python.ts:487`), so `quiesce()` does not see it either.
- A refresh whose answer has headers and no end, and one that waits for another tab's
  lock, wait without a timer (`client.ts:1410`, 1307), and a session whose starter does
  not end stays `starting` until it is closed (`controller.ts:330`).
- A cancelled download's chunks on their way are outside the budget until they arrive.
- A page whose first search waited for a map shows the error of the missing scope
  (`index.ts:2198`) even when the user has switched to `user` meanwhile, which has no
  map but needs none.

Known limits that are not in the list of hazards: `handleCallback()` without a timer
(`client.ts:1097`) and over a live session (1117), storage that cannot be read and is
cleared all the same (2141), a save refused by the storage contract (2816), the mirror
dropped without revocation (3345), a login transaction that survives a logout (944), a
tab that closes between its announcement and its clear (3334).

## 4. What is proved

Every theorem here is of the specification as the runs check it, for every value of
the constants. Each inductive invariant was checked by TLC as an invariant of a run's
instance before it was proved; that found the conjuncts that were missing, and the
tables say what each is there for.

### The authentication client

`AuthClientProofs` proves `TypeCorrect`, `Spec => []TypeOK`, for every set of calls,
messages and tabs, both topologies, and every bound. `TypeOK` is not inductive: the
credential an operation rotates (`known`) or was given (`got`) may be none by its
type, but a terminal 401 hands `known` to the set of credentials to revoke, and an
answer registers `got`. `HoldsToken` says at which program counters these are
credentials, and `TypeInv == TypeOK /\ HoldsToken` is inductive; there is one lemma
per action. Lemmas about the operators say that each method of the gate and of
the registry leaves a gate and a registry, and what it does to their parts.

The proofs assume `ConstantsAssumption` of `AuthClient`: the kinds of operations are
disjoint from each other and from the names of the client's own blocks, the capacity
and the bounds are natural numbers. TLC evaluates it in every run.

`LeaseProofs` proves four of the properties that the runs check:

- `LeasesStayDead`: `Spec => CutOffStaysCutOff`;
- `CancelledDead`: `Spec => []CancelledIsDead`;
- `BlocksOwned`: `Spec => []NoOrphanBlock`;
- `CountersExact`: `Spec => []GateAccounting`.

The first three have one inductive invariant, `IInv`, because each leans on the others. Its
argument is that a block is released in one of three ways: after a new generation,
when everything in progress is older than the generation (`Quiet`), or when another
block is there. The conjuncts beyond the types and the properties themselves:

| Conjunct | Says | Needed because |
|---|---|---|
| `LeaseInv` | no lease is newer than the gate; while a refresh is ending its session, or a logout is about to lift its block, `Quiet` holds | both release their block without a new generation, long after they took one |
| `BlockInv` | every transition in flight holds its block, and the recovery blocks are of peers and of terminal failures | a logout that completes releases other owners' blocks, and must not release these |
| `QueueInv` | a queued job belongs to one operation, which waits for it | the drain and the clear change the operation named in the job, many steps after it was queued |
| `PeerInv` | a peer's operation that is tracked blocks and is of this epoch; one whose logout is due is retired and, in a later epoch, blocks only what is over | `onCrossTab()` lifts a stale epoch's block without a new generation |
| `FreshInv` | a credential that has just arrived is known to its operation alone | disowning it must not settle the revocation of another credential, which would lift `pendingRevocation` for an operation that is still current |
| `SlotInv` | a reservation, cancelled or not, belongs to an operation that will give it back | a cancellation left behind would be found by a later operation of a live session |

The lemmas come in two layers. The first says what a kind of step does to each
conjunct: an operation moves and leaves the rest alone (`CalmStepKeeps`,
`OwnStepKeeps`), begins (`BeginKeeps`), nobody moves (`StandsStill`), within a
generation (`SameGeneration`) or to the next one (`NextGeneration`). The second has
one lemma per action, `Keeps<Action>`, that says which kind it is. `LeasesStayDead`
is an action property of the same step, `CutStep`.

`CountersExact` is proved over `IInv`, with `CountInv`: the counters are right
(`GateAccounting`), what they count is finite, and a message of another tab is
honoured once (`OnceInv`). The last is the argument. The counters count operations by
the set that holds them, and a message told twice would be counted twice there but be
one member here. So there is at most one job or one settlement per peer's operation
and kind, and while there is one, the guards of `onCrossTab()` refuse the message: its
operation is retired, or its clear is tracked already. The jobs are counted by their
places in the queue; `PeerJobsTail` carries the count over the shift of all places
when the head is taken.

`CredentialProofs` proves three more of them, and the part of the fourth that holds for
every value of the constants, over `IInv /\ CountInv`:

- `EndedUnreadable`: `Spec => []EndedStaysUnreadable`;
- `ReturnsInSession`: `Spec => ReturnedInSession`;
- `CustodyHandedOn`: `Spec => CustodyEndsByAdoption`;
- `NewerSpared`: `~SharedCredential /\ Spec => NewerSessionSurvives`.

The first two have the invariant `SessionInv`. A session may end while its credential
is being saved, while a clear is under way, or after a clear that failed, so storage
does hold credentials of ended sessions; the invariant says what keeps the tab shut
meanwhile.

| Conjunct | Says | Needed because |
|---|---|---|
| `StoredInv` | while storage holds a credential of an ended session there is a clear to come or a block that only a completed logout lifts; a save that will put one there belongs to a refresh that is ending its session | a save that storage has begun cannot be called back, and may land after the end |
| `ServedInv` | what an operation of this generation holds or was given, and the mirror, is of a session that is not over | it may be saved or returned many steps later |
| `AgeInv` | a session ends with its generation, or one generation early after the failed clear of another tab's logout | `onCrossTab()` leaves the new generation to the logout that will lift that block |
| `LogoutInv`, `PeerLogoutInv` | once a logout has cleared, nothing is saved until it is over, and the mirror stays empty | the logout lifts every block at its end, and must find nothing behind it |

`ReturnsInSession` is read off at the return: what a call of this generation holds was
minted between the end of the last session and the lease of the call.

`CustodyHandedOn` adds `CustodyInv` (only a refresh that ends its session, or a logout,
holds credentials to revoke, and at the end of a logout those still alive are pending in
the registry). It says that custody is always handed on, or ends because the operation
that saved the credential takes it for the session's. `KeepsCustody`, which the runs
check, says more: that storage or the mirror then holds it. That is false when two
operations of one generation save one after the other and the first adopts what the
second has overwritten. A rotation and a callback are two such operations, in three
ways that TLC finds: the callback runs over a live session; another tab clears shared
storage while the rotation is being saved, and the callback finds no session; or a login
begins while an earlier callback is being saved, a refresh reads what that save has left
there before it is undone and rotates it, and the second callback saves behind it (with
`MaxTracked = 3`, at four calls). The rotated credential is then alive and in nobody's
custody.

`NewerSpared` adds two invariants. `NewerInv`: a clear or logout of another tab that
waits in the queue either still holds the tab shut and began after the session of this
tab (`Held`), or a logout of this tab has overtaken it, and then storage is empty and no
save before it in the queue is valid any more (`Overtaken`). `OrderInv`: a tab's clear
comes before its logout, so a block is not lifted under a clear that still needs it.
The hypothesis `~SharedCredential` is one of the two topologies of the code: every tab
keeps a credential of its own, and a message is recognised by time. In the other, with
shared storage, the property is false in general, which `v_stale_binding` shows;
`peers_shared` checks it there for callbacks alone.

### The workspace and downloads

`WorkspaceProofs` proves all four properties of `workspace`, for every pool and any
number of files, names, leases and descriptors, assuming only `WorkspaceAssumption`
(the marks for "no name", "no slot", "no file" and the staging name are none of the
real ones):

- `SlotsAreAccounted`: `Spec => []SlotsAccounted`;
- `FreeSlotsStayEmpty`: `Spec => []FreeSlotsAreEmpty`;
- `ReadyStaysWhole`: `Spec => []ReadyIsWhole`;
- `LeasedStaysFrozen`: `Spec => []LeasedIsFrozen`.

Their one inductive invariant is `Sound`, an operator on a pool, the slots not empty,
a file table, the leases and an import, because `rename()` and the commit of an import
change two files in one step: the table in between is sound too, and the lemma about
the loss of a name (`DetachedKeeps`) applies to it. What `Sound` adds to the
properties:

| Part | Says | Needed because |
|---|---|---|
| `NodeOK` | a node without a name is there for its descriptors only, and is marked unlinked; what was lost, or not recorded in the generation, is known to have failed | the last close of an unlinked file frees a slot, that of any other must not; `ReadyIsWhole` sees only that the file has not failed |
| `SlotsOK` | no two files share a slot, and a file's slot is taken | a slot that is given back would otherwise be another file's |
| `LeasesOK` | a leased file has a name and no writer | a write does not look at the leases |
| `ImportOK` | the import's file has exactly its one writer and no name but the staging one; no other file is in part | what ends an import closes that one descriptor and takes the slot back |

Four lemmas say what a kind of change does to `Sound` (a node changes, moves, goes,
comes), and one lemma per action says which kinds it is made of.

`TransferProofs` proves the safety properties of `transfer`, for any number of
downloads and of replacements of the worker, files of any size and any window, from
`TransferAssumption` (the sizes and the budget are natural numbers, a window is at
least one chunk):

- `ClosedStaysWhole`: `Spec => []ClosedIsWhole`;
- `SettledOnceOnly`: `Spec => SettledOnce`;
- `LeasesOwned`: `Spec => []LeaseOwned`;
- `OnlyOwnLeaseFreed`: `Spec => OnlyOwnLease`;
- `BudgetKept`: `Spec => []WithinBudget`.

The invariant of the first two, `TransferOK`, is about one download. Until its destination is settled,
what it requested is what it wrote, what it is writing and what is on its way; what
the destination has is a prefix of the file, from one interpreter; and no more is
requested than there is. So when nothing is on its way and all was requested, all was
written. That a pull always waits for a chunk that was asked for
(`Len(r.inFlight) > 0`) is part of it: without it the next chunk is not defined.
Nothing is assumed of the replies beyond their types: `FlightOK` says that a chunk
that was not refused is of the transfer's interpreter, because `validateChunk()` looked
at its session, and a pull looks at its position.

`LeaseInv` is about the leases of the worker that is there, which is the difficulty:
ids start again with every worker, so a message is only about a lease if it is of this
worker's session. Its parts: a request or a reply on its way is of this worker
(`RequestOK`, `ReplyOK`: a restart empties both ways); a transfer asks for a lease at
most once, and not again once the answer is on its way (`AskedOnce`: two grants would
leave one without an owner); a lease has an owner (`LeaseOK`, the property); a
transfer's record of a lease of this worker is of one the worker granted it
(`OwnOK`), and a close that is on its way for a lease of this worker comes from an
owner that is done with it. One lemma,
`OneTransfer`, covers every step in which one transfer takes a reply and sends
requests.

`BudgetInv` counts what is reserved: a place of the budget for each chunk a transfer
may hold. A sum over the transfers would need induction; a set of places grows and
shrinks by one transfer's places (`PlacesGiven`, `PlacesBack`), which are as many as its
window. The other half is about one transfer, `WindowOK`: what has come or was asked
for, with the chunk being written, is within its window, and who is over has none.

### Sessions

`SessionsProofs` proves the four invariants of `sessions` and that the sessions
implement `SessionPromise`, for any number of documents, sessions, slots and files,
from `CapacityAssumption` and `NobodyAssumption` (there is a slot; the mark for "no
owner" is no document):

- `FrozenOnceListed`: `Spec => []NothingRunsOnceListed`;
- `SlotsGivenBack`: `Spec => []NoSlotLeaked`;
- `CapacityKept`: `Spec => []WithinCapacity`;
- `ManifestLast`: `Spec => []ManifestMeansComplete`;
- `SessionsKeepPromise`: `Spec => FilesKept`, the refinement.

`SessionsTypeOK` states the types they rest on. The invariant,
`IInv == Types /\ SlotsOK /\ \A s : SessionOK(s)`, is about one session except for the
slots:

| Part | Says | Needed because |
|---|---|---|
| `Row` | which states of the session and of its engine go with the await at which its operation is suspended | the continuation checks little of this again; `NothingRunsOnceListed` is the row of the last awaits of `sleep()`, and needs the row of `list`: what was typed before the engine was quiesced is ahead of the listing, and one piece of it at most is left |
| `SlotsOK` | a slot is held exactly for a session that has one, was granted one, or reserved one ahead; no session holds two | what gives a slot back looks at one of these places only |
| `DirOK` | a checkpoint with a manifest, or with one being written, has every file of its plan | `sweep()` and a save that is interrupted leave anything else |
| `FilesOK` | while the interpreter is gone the files are in the checkpoint, with a manifest, and this document owns it | other documents sweep what has no owner, and discard what they took over |

The refinement follows `MCSessions`: where the files are is computed from the state
(`PlaceIn`). Every step of the page is, for each session, a step of the promise or a
stutter (`PromiseStep`), and every action's lemma proves the invariant and that
together (`Sound`), because which step it is depends on the row. The steps that end in
another document's hands (the sweep, a takeover, a document that dies) are the ones
that need `FilesOK`.

### The engine

`EngineProofs` proves all properties of the run `engine`, for any number of commands,
attempts and consoles, with and without startup code, from `EngineAssumption` (there
is a command and an attempt, the mark for "nobody" is no console):

- `CommandsNeverRetargeted`: `Spec => []NeverRetargeted`;
- `StateStaysTrue`: `Spec => []StateIsTrue`;
- `BusyStaysDue`: `Spec => []NeverStuckBusy`;
- `BufferStaysOneStatement`: `Spec => []OneStatement`;
- `ProgramOrderKept`: `Spec => InProgramOrder`;

and `EngineTypeOK`, the types. The invariant is
`IInv == Types /\ BootsOK /\ ChainOK /\ WireOK /\ LinesOK`:

| Part | Says | Needed because |
|---|---|---|
| `BootsOK` | only an attempt that waits is rejected, and a state other than starting goes with what came of the attempt that made the worker | a superseded attempt resumes after a newer one and must not speak for it |
| `ChainOK` | a command that has had its turn was let through by all before it; `busy` has a command that is counted; one whose module is loading (`Bound`) is for the interpreter it was written against | the order of programs and the way out of `busy` are both the chain's |
| `WireOK` | requests and replies are in the order of the commands, what waits is behind what ran, and what waits is for this worker | Python answers in order, and a command is sent long after it chose its worker |
| `LinesOK` | the line buffer is its owner's while no command that moves it is on its way; such a command is alone, and its answer says what is in the buffer | the page learns what the buffer holds only from the answer, and another console may push in between |

### The data browser

`DatabrowserProofs` proves all the safety properties of `databrowser`, for any
flavours, selections, configurations and links, and any number of changes, from
`DatabrowserAssumption` (there is a selection, the marks for missing and unknown names
are no flavours, and a page is mounted with flavours there are):

- `NothingStaleShown`: `Spec => []ShownIsCurrent`;
- `RowsStayInOrder`: `Spec => []RowsOfOneQuery`;
- `ListsStayInStep`: `Spec => []ListsInStep`;
- `AnswersStayFit`: `Spec => AnswersFitQuery`.

An event of the page is a composition of operators that take a page to a page, so the
invariant is one too, `Good(d)`, and there is a lemma per operator: `Typed` (nothing is
newer than the query, no request id is given twice), `Lasting` (rows are of one query
and in order, and a page that is awaited continues them; this survives a change of the
query) and `Fits` (once the query may be sent, what is shown and what is awaited are
its own; a change of the query makes it true again, whatever it was). The model
renumbers revisions and ids after each event, to stay finite (`Rest`); the proof shows
that ranks keep the order (`RankIn`), with the largest number of a finite set taken
from the well-foundedness of `<`.

### What is only model-checked

- Liveness, in every component, and everything about fairness: out of the prover's
  reach.
- Of the authentication client: `KeepsCustody`, which is not true of every
  instance and so is checked on those of `custody` and `custody_deep` (`CustodyHandedOn`
  is what holds for all), `NewerSessionSurvives` with shared storage, and
  `LogoutLeavesNothingUntracked`, which is false (`v_logout_orphan`).
- What the model's bounds cut off: the theorems are about the specifications with
  their bounds as parameters (`MaxCalls`, `MaxTokens`, `MaxOps`, `MaxBoots`), so they
  hold for every bound, and that is all that is claimed.

## 5. What is not modelled, and the plan

In the authentication client: the server-managed and BFF topologies
(`ServerManagedStorage`, `adoptDiscardedMint`), `acknowledgeNoRevocation` and
`requireLoginTransaction = false`, `fetch()` with its retry on 401, `userinfo()`,
`diagnose()`, and all validation of configuration, URLs and messages, which is
sequential.

In browser-python: `complete()`, `interrupt()`, displays and the output stream of the
engine; directories and the opening, closing and sweeping of whole workspaces; the
broker without `navigator.locks`; quota arithmetic and format versions of checkpoints;
the setup of Pyodide, the Python helpers, and the user interface.

In the data browser: rendering, the terminal's parser, metadata, exports, `destroy()`,
and the picker, which repeats the search with an engine of its own.

The other packages are rendering, static generation or glue, and keep no state that a
second actor changes, with these exceptions, which are left for later: the paging of
`dataset-tree`, the poller of `data-inspector`, and the chat streams of
`jupyterlite-climateclaw`. By lines the modelled code is a small part of the monorepo:
most of it is user interface, styles, vendored data and build scripts.

Next, in this order:

1. `ServerManagedStorage`: the cache, the pull in flight shared by its callers,
   `clear()` and `invalidateCache()` while it is under way, composed with the registry.
2. Two modelled tabs that exchange messages, in place of the one-step peers of
   `AuthClient` (the fingerprint a logout announces against a rotation in flight).
3. The picker as an instance of `Databrowser`; `interrupt()` and `complete()` in
   `Engine`; the opening and sweeping of workspaces.
