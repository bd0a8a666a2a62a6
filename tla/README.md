# Theia, in TLA+

Theia is an IDE in two halves: a frontend in a browser (or an Electron window) and a backend in
Node, which talk over one web socket.  Each half is single threaded, so that every callback runs
to its end; what makes the system hard is what happens *between* callbacks: messages in flight,
sockets that close and come back, promises that resolve after the world has moved on, timers, and
caches of things the other half owns.  The modules in this directory model those parts of the code
as state machines, TLC checks them on small instances, and TLAPS proves the most important
properties for every value of the constants.

Contents: [1 the system](#1-the-system), [2 the modules](#2-the-modules),
[3 the runs](#3-the-runs), [4 fairness](#4-fairness), [5 the proofs](#5-the-proofs),
[6 disagreements](#6-disagreements-between-code-and-docs),
[7 what is not modelled](#7-what-is-not-modelled), [8 the plan](#8-the-plan).

`PROJECT.json` has the same in machine-readable form: components, runs, the map from each
definition to the lines it models, the hazards, and for each checked property a mutant (a plausible
bug in the modelled code) that breaks it.

## 1 The system

Paths are relative to `src/packages`.

### Core messaging: service channels (`core/{browser,common,node}/messaging`)

* *State.* Frontend (`WebSocketConnectionProvider`): the reconnecting socket, the listeners of its
  `open` event, `channelIdSeq`, the map of channels.  Backend (`MessagingContribution`): for every
  socket a map of channels in a closure.
* *Operations.* `listen`/`openChannel`, `closeChannel`, `onclose`, `onmessage`; `handleChannels`
  with the messages open, ready, data, close; `checkAlive` terminates dead sockets.
* *Interactions.* Every service of the backend is one channel; a connection handler gets a
  `Connection` when its channel is ready.
* *Hard.* The two maps are kept consistent by messages only.  A socket may close at any point of the
  open/ready handshake, each end notices in its own time, and closing a channel reopens it from
  inside the close handler.
* *Correct when* a channel leads to its own handler's service; a handler is served by one channel;
  a handler nobody closed is served again after a reconnect (it is not always, see 6).

### Core messaging: JSON-RPC proxies (`core/common/messaging/proxy-factory.ts`, `handler.ts`)

* *State.* A factory's `connectionPromise`; on each connection the numbered requests.
* *Operations.* A proxy method: wait for the promise, then `sendRequest` or `sendNotification`;
  `listen` resolves the promise; the disposal of a connection rejects what was not answered and
  replaces the promise.
* *Hard.* Calls made before, between and after connections; answers that race the end of a socket.
* *Correct when* a call is executed at most once and in order, an answer is the answer to the call
  it settles, and no call hangs.

### Core references (`core/common/reference.ts`, `disposable.ts`)

* *State.* `_values`, `pendingValues` and `references` of each key.
* *Operations.* `acquire` (with an async factory), disposal of a reference, and through callbacks
  the disposal of the collection and the value.
* *Interactions.* Text models, git watchers and others are shared through it.
* *Hard.* `acquire` awaits twice, and the value can be disposed in between.
* *Correct when* a value is created once, is not disposed while somebody holds it, and is not
  handed out after it was disposed by its other holders (it is, see 6).

### Text models, file resources, saving (`monaco/browser/monaco-editor-model.ts`,
`filesystem/browser/file-resource.ts`, `filesystem/node/node-filesystem.ts`)

* *State.* Model: text, dirty flag, content changes, autosave timer, cancellation tokens of save and
  sync, the chain `pendingOperation`.  Resource: the last stat.  Backend: the file.
* *Operations.* Edits, autosave, save with participants (`onWillSaveModel`), incremental update with
  a fallback to a full write, sync on the file watcher's events, overwrite question.
* *Hard.* Every request is a round trip in which the user types, other saves are asked for and other
  programs write the file.  Edits cancel saves at each `await`.
* *Correct when* an incremental update is applied to the text it was made for, nothing typed is lost, a
  clean model is saved, autosave ends with the file up to date (not when the resource has come apart from
  its file, see 6), and another program's change is not overwritten unasked (it can be, see 6).

### File watching (`filesystem/browser/filesystem-watcher.ts`,
`filesystem/common/filesystem-watcher-protocol.ts`, `filesystem/node/nsfw-watcher`)

* *State.* Client side: each client's collection, `toRestartAll`, `watcherSequence`, `watchParams`,
  `localToRemoteWatcher`.  Server: the watchers of a connection, the debounced changes.
* *Operations.* `watchFileChanges`, disposal, restart when the ignored patterns change, `reconnect`;
  on the server `start` (nsfw or a poll of a missing path), `unwatchFileChanges`,
  `fireDidFilesChanged`.
* *Hard.* Local ids outlive connections; every server numbers its watchers from 1 again.
* *Correct when* what is wanted is watched after any reconnect, ids agree, noticed changes arrive.

### File navigator tree (`core/browser/tree`, `filesystem/browser/file-tree`, `navigator/browser`)

* *State.* `TreeImpl`: the root and the map `nodes` from ids (paths) to node *objects*; in each object
  its children, its parent, whether it is expanded.  The selection state: a stack of entries with a
  focus.  Backend: the files.
* *Operations.* `setRoot`, `refresh` (asks for the children, puts them in when the answer comes),
  expand and collapse, clicks, keys, reveal of the current editor's file, the file watcher's events,
  a stored layout that is restored.
* *Hard.* A refresh is a round trip for one object.  When it is answered, the object may have left the
  tree, its path may belong to another object, it may have been collapsed or deleted, and a later
  refresh of it may have been answered already.
* *Correct when* each node of the tree is the one its map finds, what is shown is what is on disk once
  nothing is under way, and the arrow keys go through the rows in order.

### Processes and their output (`process/node`)

* *State.* The `ProcessManager`'s map and counter; per process a `MultiRingBuffer`: a buffer, head,
  tail, and the positions of its readers and streams.
* *Operations.* `register`, `unregister` when a process has ended; `enq` of a chunk, `deq`, a stream
  that is attached and reads what was kept, and `onData` that pushes what comes after.
* *Hard.* Chunks of any length, wrap-around, an overrun that moves the tail and the readers.
* *Correct when* the ring holds the last bytes in their order, and a stream gets all that was kept and
  all that comes: in order (it does), in full (it does but for characters that go over a border and are
  replaced, see 6), and once (it does not, see 6).

### Terminals (`terminal/browser`, `terminal/node`)

* *State.* Each `TerminalWidgetImpl`: id, title, its channel, the `start` that is under way.  The
  shell terminal server: a singleton with *one* client; the processes it can reach by id.
* *Operations.* `start` (create or attach), `reconnect`, `dispose`; a page that is loaded again and
  restores its widgets; exits of processes and the event about them.
* *Hard.* Connections and pages end in every state of a `start`; a process lives on without them.
* *Correct when* a process belongs to one widget or there is a reason why not, exits are shown, and
  terminals come back after a reconnect (unless the shell proxy's handler was lost, see 6).

### Git repositories and watchers (`git/node`, `git/common/git-watcher.ts`,
`git/browser/git-repository-tracker.ts`)

* *State.* `GitRepositoryManager`: a watcher per repository, shared by references.  The watcher: its
  timer, the runs of `git status`, the last status.  The servers of the connections hold references.
  A page: `localToRemoteWatcher`, the selected repository, its tracker.
* *Operations.* `watch`, `sync` after each git operation, `syncStatus` and its timer, `dispose`; the
  selection of a repository, the repeat of all watches after a reconnect.
* *Hard.* Timer, runs of git and references change independently; runs end out of order; the
  handlers of two selections overtake each other at each `await`.
* *Correct when* a watched repository is polled and nothing else is (something else can be, see 6),
  pages learn the status, the selected repository is followed.

### Search in workspace (`search-in-workspace`)

* *State.* The tree of results with the token of its search; the service's `pendingSearches`,
  `pendingOnDones` and `lastKnownSearchId`; the server of a connection with `nextSearchId` and the
  processes of `ongoingSearches`.
* *Operations.* `search` of the widget (every key), `search` and `cancel` of the service and of the
  server, results and ends of ripgrep, `wrapUpSearch`.
* *Hard.* A search is superseded before its id is known, or its end comes before; results of a killed
  process still arrive; ids begin at zero on every connection.
* *Correct when* what is shown is what the latest search has found, what is superseded is stopped, and
  each search ends (not always: see 6).

### Components that have no module

| component | state, operations and what is hard | correct when |
|---|---|---|
| connection status (`core/browser/connection-status-service.ts`) | a timer loop around an `alive` request; `stop` and `start` during the request | one loop while started, none while stopped; status follows the last answer |
| cluster and IPC (`core/node/cluster`, `core/node/messaging/ipc-*`) | workers forked, restarted, stopped with timeouts | one worker serves; a restart ends |
| plugin RPC (`plugin-ext/src/api/rpc-protocol.ts`) | calls both ways, batches, end of the host | each call settles once |
| navigation history (`editor/browser/navigation`) | stack and pointer, overlapping reveals | back and forward visit what was registered |
| tasks, languages, extension manager | small maps; external servers; installations that cancel each other | later, or not (see 7) |

The remaining packages (other trees, shell, widgets, preferences, keymaps, markers, parsers,
language packages, generators, examples) have no state that several actors change concurrently, or
only start external programs; `PROJECT.json` lists each with the reason.

## 2 The modules

| module | models | lines it stands for |
|---|---|---|
| `WsChannels` | service channels, both ends and the socket between them | `ws-connection-provider.ts`, `web-socket-channel.ts`, `messaging-contribution.ts` |
| `JsonRpc` | proxies and services, composed with `WsChannels` | `proxy-factory.ts` |
| `RemoteCalls` | abstract specification: what a proxy promises its callers | |
| `ReferenceCollection` | one key of a collection | `reference.ts`, `disposable.ts` |
| `MonacoEditorModel` | one document with its resource and file | `monaco-editor-model.ts`, `file-resource.ts`, `resource.ts`, `node-filesystem.ts` |
| `FileWatching` | clients, reconnecting server, servers of the connections | `filesystem-watcher.ts`, `filesystem-watcher-protocol.ts`, `nsfw-filesystem-watcher.ts` |
| `FileTree` | the navigator over a changing file system | `tree.ts`, `tree-model.ts`, `tree-iterator.ts`, `tree-expansion.ts`, `tree-selection-*.ts`, `tree-widget.tsx`, `file-tree*.ts`, `navigator-model.ts` |
| `MultiRingBuffer` | the output of a process and its streams | `multi-ring-buffer.ts` |
| `Terminals` | widgets, the shell terminal server, processes | `terminal-widget.ts`, `base-terminal-server.ts`, `shell-terminal-server.ts`, `process-manager.ts`, `process.ts`, `terminal-process.ts` |
| `GitStatus` | polling one repository for several pages | `git-repository-manager.ts`, `git-repository-watcher.ts`, `dugite-git-watcher.ts` |
| `GitTracking` | a page that follows the selected repository | `git-watcher.ts`, `git-repository-tracker.ts`, `dugite-git-watcher.ts` |
| `SearchInWorkspace` | a page that searches, over several connections | `search-in-workspace-service.ts`, `search-in-workspace-result-tree-widget.ts`, `ripgrep-search-in-workspace-server.ts` |
| `MCWsChannels`, `MCJsonRpc`, `MCFileTree` | instances for TLC (contents, bursts, whose call is whose; the paths) | |
| `WsChannels_proofs`, `JsonRpc_proofs`, `TextModels_proofs` (documents and the references to them), `FileWatching_proofs`, `FileTree_proofs`, `Processes_proofs` (`MultiRingBuffer` and `Terminals`), `Git_proofs` (both git modules), `SearchInWorkspace_proofs` | theorems | |

The two git modules, references and text models, and the two modules of processes are each proved
about in one module, which extends both; `GitTracking`, `ReferenceCollection` and `MultiRingBuffer`
therefore have names of their own where the others say `Init`, `Spec`, `TypeOK`: `TrackingSpec`,
`ReferencesSpec`, `RingSpec`, `RingTypeOK` and so on.

**Granularity.** JavaScript runs each callback to completion, so that an action is a whole callback:
from an event (a message, a timer, a resolved promise) to the next `await` or the return.  A request
to the backend is three steps: sent, executed there, answered here.  Microtasks that follow at once
(a `then` on a promise that is resolved already) belong to the action that resolves the promise.

**WsChannels.**  `Listen` is `listen`, with the `open` listener of a socket that is not up;
`Connect` the `open` event, in which all one-shot listeners run; `ClientClose` is `onclose`
(`fireClose` for each channel, then `channels.clear()`), `CloseChannel` the disposal of a connection
while the socket is up.  `ClientReceiveReady` and `ClientReceiveData` are `onmessage`;
`ServerReceiveOpen`, `ServerReceiveClose`, `ServerReceiveData` are the branches of the backend's
`message` handler and `ServerClose` its `close` handler.  `up` and `down` are the two directions of
each socket: FIFO, lost when that end closes.  `owner` is the handler of an id, which in the code
is in the closure of `openChannel`.

**JsonRpc.**  `Net == INSTANCE WsChannels` supplies the channels, and every action is an action of
`Net` together with what the factory does in it: `Ready(i)` is `onConnection` (resolve
`connectionPromise`, send what waited), `SocketClose` disposes the connections (reject, replace the
promise), `ServiceInvoke`/`ServiceRespond` a service's method and its settled promise.  A proxy
never closes its own channel, so `CloseChannel` is not used.  `Promised == INSTANCE RemoteCalls
WITH promise <- ..., times <- ...` is the refinement mapping: "waiting" and "sent" are both pending,
`times` counts the executions.  `sequenceNumber` and `responsePromises` are the state of each
vscode-jsonrpc connection: the number of its last request, and the requests it has not settled.

**ReferenceCollection.**  An acquire stands for its caller, for the value it creates if it does
create one, and for the collection it makes if it does.  `Acquire` is `acquire` up to its `await`,
`FactoryReturns`/`FactoryFails` the continuation of `getOrCreateValue`, `Receive`/`Reject` that of
`acquire`, `Dispose` a reference's disposal with the callbacks it triggers.

**MonacoEditorModel.**  A content is the *set* of the changes in it.  A change has a range, which is right
only in the text that it was made in: `MadeInFile` says when the changes of an update fit the file, and an
update whose changes do not leaves any subset of what was there and of the changes (`UpdateContent`).
`adrift` is history: the resource's stat may stand for another text than the one that the model's changes
were made in.  `phase` is the place in `doSave` or `doSync`; `queue` the chain `pendingOperation`; a token
is the flag of the operation that has it.  `Type`, `Timeout`, `Save`, `ChangeFile` are inputs;
`StartSave`, `WillSaved`, `UpdateRefused`, `Saved`, `StartSync`, `Synced` the segments of the two
operations between awaits; `UpdateContent`, `GetFileStat`, `SetContent`, `ResolveContent` the
backend; `FilesChanged`, `IsInSync` the resource's `sync`.  `Synced` takes the stat of what was read
before it looks whether the text is still to be replaced (`ReadWith`), as the resource and the model do
one after the other.  `LateFixes` are participants the save no
longer waits for: `EditorconfigDocumentManager` and `MonacoWorkspace` both call `waitUntil`, and
the first to answer resolves the promise.

**FileWatching.**  `Watch`, `Dispose`, `PreferenceChanged`, `Receive...` are the client side;
`Connect` and `Close` a connection with its own server (`bindFileSystemWatcherServer` makes one per
connection); `ServeWatch`, `Started`, `StartFails`, `Poll` are `watchFileChanges` and `start`,
`ServeUnwatch` is `unwatchFileChanges`, `Notice` nsfw's callback, `FireDidFilesChanged` the
debounce.  The connection behaves as `JsonRpc` shows: calls made while it is closed wait, calls it
closes on are rejected.  `robbed`, `noticed`, `told`, `rejected` are history for the properties.

**FileTree.**  A node is an object, not a path: `gen` counts the objects made for a path, and the
variable `tree` has what the code keeps in the objects (`children`, `parent`, `expanded`) next to the
map `nodes`.  `SetRoot`, `SetChildren`, `Replace` are those of `TreeImpl`; `Refresh` sends the
request, `GetFileStat` is the backend's answer (a `readdir` and a `stat` of each child, in one step),
`Receive` puts it in and does what the code that
awaited it does next (`GoOn`: show the children, select, go on with a reveal one directory down).
Requests and answers are bags: nothing orders the answers of two requests.  `Select`, `NextStack`,
`HandleToggle`, `HandleRange` are `TreeSelectionState`, `Up`, `Down`, `Left`, `Right` the keys,
`NextNode` and `PrevNode` the iterators.  `strayed` and `outdated` are history: paths that the
refresh of an object outside of the tree has put into the map, and objects that show an older answer
than one they have had, or have missed a change because their path was among those.  `newest` is the
version of the files that an object should show.

**MultiRingBuffer.**  A byte is its number in the output.  The operators have the names of the
methods, and the arithmetic is that of the code, `% maxSize` included.  `Enq` is the whole callback
of the process's data: copy, heads and tails, and `onData` of each stream, which reads until it has
everything.  `Continues` has the bytes that go on with the character of the byte before; `ToText` is
`Buffer.toString`, which replaces the parts of a character that is not in the piece as a whole (such a
byte `b` appears as `-b`).  Output comes as strings, so that a chunk ends with a character; what is
dropped of a chunk may not.  `atEnd` and `before` are history for the borders of the property.

**Terminals.**  `Open`, `Dispose` are the user's; `Connect` and `Close` the socket with the two proxies
on it; `handler` is TRUE while a channel or a listener has the handler of the shell proxy: a socket that
closes before the proxy is ready takes it away (`AbandonedOnlyWhileOpening` of `WsChannels`), and the
next socket opens no channel for it until the page is loaded again; `Reload` the page, whose widgets
come back from the stored layout with the id they had.  `Receive...` are the continuations of `start`
and the client's `onTerminalExitChanged`; `Serve...` the backend's handlers in the order in which a
socket carries them; `Exit` the end of a process.  `abandoned` is history.

**GitStatus.**  An `acquire` of the manager and what follows it at once are one step.  `Watched`,
`Disposed`, `Schedule`, `Clear` are the methods of the watcher, `TimerFires`, `RunGoesOn` the timer
and the end of a `git status` (`StatusRead`, `RepositoryMissing`, `StatusError`), `Sync` what every
git operation does when it ends.  `strays` counts watchers that left the manager and still poll.

**GitTracking.**  A handler of a selection is named by the local id of its watch.  `Select` is the
event and what the handler does before its `await`; `ReceiveWatched` and `StatusAnswered` what it
does after; `Connect` repeats the watches (on the first connection too, as the code does).

**SearchInWorkspace.**  A search is named by its number in the page, which the code does not have: a
token is cancelled exactly if its search is not the `latest`, and messages carry the number only for
the properties.  `Search` and `SearchNothing` are `search` of the widget, `ReceiveAnswer` what its
`await` and that of the service lead to, `ReceiveResult` and `Done` the client's events, `ReceiveIcon`
the rest of `onResult`; `Timer` the callbacks of `setTimeout`, in their order.  `ServeSearch`,
`ServeCancel`, `Output`, `End` are the server and its processes.  A socket is open in this module when the
proxy's channel on it is ready, because nothing distinguishes the time before from having no socket: calls
wait.  `Abandon` is a socket that closes in that time, after which the proxy has no `handler` and all
calls wait.  The order in which ripgrep finds
things is left open.  `found`, `ended`, `lost`, `late` are history.

## 3 The runs

Deadlock checking is off everywhere: each of these systems may come to rest (no user input left
within the bounds), which TLC would report as a deadlock.

| run | instance | shows |
|---|---|---|
| `ws_channels` | 3 handlers (`h3` without a route, `h2` not reconnecting), 2 sockets, 4 ids, 2 in flight | `TypeOK`, `ChannelsAgree`, `OneConnectionPerHandler`, `AbandonedOnlyWhileOpening` |
| `json_rpc` | 2 proxies; 3 calls on one (the second a notification), 1 on the other; 2 sockets, 4 ids | `PromiseIsCurrent`, `NoOrphanedCall`, `ExecutedInOrder`, `ImplementsRemoteCalls`, `SentCallsSettle` |
| `references` | 5 acquires | `ReferencesTypeOK`, `OneCreation`, `EntryIsLive`, `LastReferenceDisposes` |
| `monaco_editor_model` | 2 edits, 1 participant's edit, 1 external change, autosave, 2 participants, 1 save by the user, 1 write that fails | `TypeOK`, `NoEditLost`, `CleanMeansSaved`, `UpdatesFit`, `EditsReachFile` |
| `file_watching` | 2 clients, one path missing at first, either may be refused by nsfw; 2 connections, 2 local ids, 1 change | `IdsAgree`, `WantedIsWatched`, `OrphansExplained`, `ChangesReachClient` |
| `file_tree` | 4 paths (`w`, `w/d`, `w/d/f`, `w/g`), 2 stored layouts, 1 change of the files, 2 inputs in all | `MapHasTree`, `QuietTreeIsCurrent`, `ArrowsFollowRows` |
| `ring_buffer` | a ring of 5, streams that ask for 2, chunks of 0, 1, 2, 3, 5 and 6, 16 bytes of which 3, 8, 9 and 12 go on with a character, 2 streams | `RingTypeOK`, `RingHoldsLast`, `StreamsMissNothing` |
| `ring_read_twice` | the same | **violated**: `NothingReadTwice` |
| `terminals` | 2 widgets, 2 processes, 2 sockets, 1 reload | `OneWidgetPerTerminal`, `OrphansExplained`, `TitleTellsExit`, `TerminalComesBack` |
| `git_status` | 2 pages with up to 2 watches each, 2 statuses, 2 runs of git at once, 2 changes, 1 failure, 2 strays | `TypeOK`, `WatchedIsPolled`, `PagesLearnStatus` |
| `git_tracking` | 2 repositories, 3 selections, 2 connections, 1 event | `SelectedIsFollowed` |
| `search` | 2 searches, 2 connections, 2 files with 2 matches each at most, a limit of 2 results, one file's icon known by name | `CancelHitsOwnSearch`, `SupersededIsCancelled`, `ShownIsComplete`, `SearchEnds` |

The type invariants of `JsonRpc`, `FileWatching`, `FileTree`, `Terminals` and `SearchInWorkspace` are
stated for the reader and are not among the properties of the runs; those of the other
modules are.

What the properties say, and why the bounds reach the interesting cases:

* **ws_channels.**  Disagreement of the maps needs an id of an old socket, or one that was closed and
  reopened, to meet a new one: two sockets and four ids for three handlers give each handler a
  second life, and one of them a third.  Two messages in flight let open, ready, data and close of
  different channels overlap.  `h3` never gets `ready`: its channel is the one that is still opening
  in every close.  `AbandonedOnlyWhileOpening` is an action property: of all steps, only an `onclose`
  during the handshake can leave a handler without channel and without listener.
* **json_rpc.**  Three calls on one proxy are the fewest in which a call made earlier waits, a
  notification without a number comes between, and a later one follows; the second proxy shows that
  responses do not cross channels.  Two sockets give calls before, on, between and after
  connections.  `ExecutedInOrder` has one exception, which is real: the backend may still execute
  what was in flight on a socket the frontend has given up, after later calls have been executed on
  the next.  `ImplementsRemoteCalls` is the refinement: executed at most once, own answer, rejected
  only while pending.
* **references.**  Five acquires allow three generations of values, with a waiter of the first one
  (which gets a dead value) and holders of the second in the same collection.
* **monaco_editor_model.**  `NoEditLost` and `CleanMeansSaved` need an edit in each `await` of a save,
  and another operation waiting behind it: two edits, a user's save next to autosave, an external
  change with its sync, and a write that fails.  The late participant is the second one, whose edit comes
  at any time after the save went on; formatting that comes late is *not* an edit the model promises to
  save, and `CleanMeansSaved` speaks of `Edits` only.  Both properties, and `UpdatesFit`, except a resource
  that is `adrift`, which begins in three ways and ends when the whole content is written (section 6); an
  update that is wrong then may replace anything in the file.  The scenario that needs it has one edit
  during the read of a sync and one save: within the bounds, without a failure.  `CleanMeansSaved` holds
  because autosave is on: see `UnpersistedIsDirty` in 6.  `EditsReachFile` is the liveness of autosave,
  although every edit cancels the save that runs.
* **file_watching.**  Two connections let the same local id have two remote ids, in two orders; two
  local ids suffice for a swap, and for a restart by `PreferenceChanged` of a watch that is
  pending, running, stopped or refused.  `WantedIsWatched` leaves out ids in `robbed`, whose watcher
  was stopped by another id's unwatch: that happens (section 6, `StopsGivenId`).
  `OrphansExplained` lists the two ways in which a watch can be left that nobody can stop: a
  rejected promise, and a restart of a watch its client had stopped.  `ChangesReachClient` is the
  liveness of the debounced event.

* **file_tree.**  A directory with a file and a file next to it are the smallest workspace in which a
  range spans levels, going back from a row enters an expanded sibling, and a deleted directory
  takes nodes along.  Two refreshes of one object are under way at once from the start, because the
  root is set from the stored layout and again by the workspace service.  The change of files may
  delete or create any of the paths, also one that was just there (`MaxChanges`), and the user has
  one input before or after it, or two without it (`MaxInputs` bounds both together).
  `MapHasTree` and `QuietTreeIsCurrent` name the ways in which the code breaks them, `strayed` and
  `outdated`: see 6.
* **ring_buffer.**  A ring of five positions has chunks that leave room, fill it to the last byte, are
  one too long, and wrap by each amount; sixteen bytes go around it three times.  Reading two at a
  time, a stream reads across the end of the buffer and up to it.  Characters of one, two and three bytes
  come to lie over the end of the ring, over what is dropped of a long chunk, and over the pieces a stream
  reads when it is attached; `StreamsMissNothing` names these borders, and is violated without any one of
  the three.
* **terminals.**  Two widgets and two processes let one widget attach to what another one had, and
  two sockets with a reload give each state of a `start` a connection or a page that ends under it.
  `OrphansExplained` lists the reasons why a process can run that nobody will close.
  `TerminalComesBack` is the liveness of the reconnect; a socket that closes before the shell proxy is
  ready is within the bounds, and is its exception `~handler`.
* **git_status.**  Two pages share the watcher, and one of them can hold it twice; two runs of git at
  once can end in either order; the second change can bring a repository back that was gone.
  `PagesLearnStatus` is the liveness of the polling.
* **git_tracking.**  Three selections of two repositories select the first again while both handlers
  of before await; two connections repeat watches while selections go on.
* **search.**  Two searches let the second come before the first is sent, before its id, between its
  results, at its limit, or after its end; with two connections both get the id 0.  A limit of two with
  two matches in a file is met by one file alone or by both.  `SupersededIsCancelled` follows a
  cancellation through the answer, the timer and the call; `CancelHitsOwnSearch` has one exception
  (`late`), a timer of 0 ms that fires after the socket has closed *and* the user has typed on, which
  takes a third search to matter.  `ShownIsComplete` leaves out searches in `lost`: see 6. `SearchEnds`
  leaves out those too, and the pages whose proxy was abandoned.

The names of the bounds are the constants `MaxConns`, `MaxChannels`, `MaxInFlight` (channels and
proxies; data waits while so much is in flight), `MaxSaves`, `MaxFailures` (editor), `MaxSessions`,
`MaxWatches`, `MaxChanges` (watching), `MaxChanges`, `MaxInputs`, `MaxObjects` (tree; the run never
needs a fifth object for a path), `MaxBytes`, `MaxStreams` (ring), `MaxProcesses`, `MaxSockets`,
`MaxReloads` (terminals), `MaxStrays`, `MaxRunning`, `MaxReferences`, `MaxChanges`, `MaxErrors` (git
status), `MaxSessions`, `MaxSelections`, `MaxEvents` (git tracking), `MaxMatches`, `MaxSearches`,
`MaxSockets` (search; `MaxResults` is the widget's own limit).  The sets `Calls`, `Acquires`, `Edits`,
`Fixes`, `External`, `Clients`, `Widgets`, `Pages`, `Repositories` bound the rest.  No symmetry is used:
the instances are small enough without, and it is not sound for the liveness properties.

## 4 Fairness

Weak fairness only, and only of what the code's runtime does by itself:

* `JsonRpc!Fairness`: the event loops deliver what has arrived (`ClientReceive`, `ServiceReceive`),
  the methods of services settle (`Respond`), and a frontend whose socket the backend has ended
  notices it.  Nothing says that a socket reconnects or that anybody calls.
* `MonacoEditorModel!FairSpec`: the frontend's callbacks run, the backend answers, and the
  participants answer (`MonacoWorkspace.fireWillSave` races its participants against a timeout of
  one second).  No fairness of edits, saves or other programs.
* `Terminals!Spec`: the event loops of both halves run (`Frontend`, `Backend`): what a socket carries
  is delivered, the backend notices the end of a socket, and a page without a socket gets one again
  as long as the bound allows (the reconnecting socket retries by itself).  That the shell proxy is opened
  on it is not assumed: that depends on its handler, which may be lost.
* `GitStatus!Fairness`: the timer of the watcher fires, and the oldest of its runs of git ends.
* `SearchInWorkspace!Spec`: the event loops run (`Receive`, `Timer`, `Serve`), the socket tries again, as
  long as the bound allows, until the proxy's channel is ready on it or its handler is lost, and a process
  of ripgrep comes to its end.
* `FileWatching!FairSpec`: messages arrive at the frontend, and the debounce timer fires.  Nothing is
  assumed of nsfw, of the poll interval, or of the backend's serving of requests.

## 5 The proofs

| theorem | says | module |
|---|---|---|
| `TypeCorrect` | `Spec => []TypeOK` | all but `FileTree_proofs`, `Processes_proofs`, `SearchInWorkspace_proofs` |
| `ReferencesTypeCorrect` | `ReferencesSpec => []ReferencesTypeOK` | `TextModels_proofs` |
| `RingTypeCorrect` | `RingSpec => []RingTypeOK` | `Processes_proofs` |
| `Agreement` | `Spec => []ChannelsAgree` | `WsChannels_proofs` |
| `OneConnection` | `Spec => []OneConnectionPerHandler` | `WsChannels_proofs` |
| `Abandonment` | `Spec => AbandonedOnlyWhileOpening` | `WsChannels_proofs` |
| `ProxiesAreCurrent` | `Spec => []PromiseIsCurrent` | `JsonRpc_proofs` |
| `NoCallOrphaned` | `Spec => []NoOrphanedCall` | `JsonRpc_proofs` |
| `CallsInOrder` | `Spec => ExecutedInOrder` | `JsonRpc_proofs` |
| `ProxiesImplementRemoteCalls` | `Spec => ImplementsRemoteCalls` | `JsonRpc_proofs` |
| `ProxiesUseChannels` | `Spec => NetP!Spec` (the channels below are those of `WsChannels`) | `JsonRpc_proofs` |
| `CreatedOnce` | `ReferencesSpec => []OneCreation` | `TextModels_proofs` |
| `EntryAlwaysLive` | `ReferencesSpec => []EntryIsLive` | `TextModels_proofs` |
| `DisposedByLast` | `ReferencesSpec => LastReferenceDisposes` | `TextModels_proofs` |
| `UpdatesAlwaysFit` | `Spec => []UpdatesFit` | `TextModels_proofs` |
| `EditsKept` | `Spec => NoEditLost`, for `AutoSave` | `TextModels_proofs` |
| `CleanIsSaved` | `Spec => []CleanMeansSaved`, for `AutoSave` | `TextModels_proofs` |
| `RemoteIdsAgree` | `Spec => []IdsAgree` | `FileWatching_proofs` |
| `WantedAreWatched` | `Spec => []WantedIsWatched` | `FileWatching_proofs` |
| `OrphansAreExplained` | `Spec => []OrphansExplained` | `FileWatching_proofs` |
| `MapFindsTree` | `Spec => []MapHasTree` | `FileTree_proofs` |
| `QuietIsCurrent` | `Spec => []QuietTreeIsCurrent` | `FileTree_proofs` |
| `ArrowsAreRows` | `Spec => []ArrowsFollowRows` | `FileTree_proofs` |
| `LastBytesHeld` | `RingSpec => []RingHoldsLast` | `Processes_proofs` |
| `StreamsAreComplete` | `RingSpec => []StreamsMissNothing` | `Processes_proofs` |
| `Polled` | `Spec => []WatchedIsPolled` | `Git_proofs` |
| `StraysHaveReasons` | `Spec => StraysExplained` | `Git_proofs` |
| `SelectionIsFollowed` | `TrackingSpec => []SelectedIsFollowed` | `Git_proofs` |
| `TerminalHasOneWidget` | `Spec => []OneWidgetPerTerminal` | `Processes_proofs` |
| `NoOrphans` | `Spec => []OrphansExplained` | `Processes_proofs` |
| `ExitIsTold` | `Spec => []TitleTellsExit` | `Processes_proofs` |
| `TerminalsTypeCorrect` | `Spec => []TypeOK` | `Processes_proofs` |
| `SupersededIsCancelledAlways` | `Spec => []SupersededIsCancelled` | `SearchInWorkspace_proofs` |
| `CancelsHitOwnSearch` | `Spec => []CancelHitsOwnSearch` | `SearchInWorkspace_proofs` |
| `ShownIsWhatWasFound` | `Spec => []ShownIsComplete` | `SearchInWorkspace_proofs` |
| `TypeCorrect` | `Spec => []TypeOK` | `SearchInWorkspace_proofs` |

**Assumptions.**  `ChannelsAssumption` (routes and options are of handlers, `NoHandler` is none of them,
bursts are sequences of contents, the bounds are numbers, any numbers), `ProxiesAssumption` (the same of
the channels below; calls are numbers, each of a handler, and `NoConnection` is not a channel),
`AcquiresAssumption` (`None` is not an acquire), `EditorAssumption` (`AutoSave` is a Boolean, there is a
participant, the bounds are numbers), `DistinctChanges` (edits, participants' edits and other programs'
changes are different things), `WatchingAssumption` (the clients whose path is missing, or cannot be
watched, are clients; the bounds are numbers), `TreeAssumption` (the paths are a sequence in which each
comes once, and after the directory that it is in, in the order of a depth-first walk: nothing between a
directory and what is in it is outside of that directory; a stored tree has with each path its
directory; the bounds are numbers), `RingAssumption` (a ring has at least one position and a stream asks
for at least one byte, lengths are numbers, and the first byte begins a character),
`TerminalsAssumption` (the bounds are numbers, and the widgets are finitely many: the calls that waited
for a socket are sent one after the other, in an order of the widgets that only a finite set has) and
`GitStatusAssumption` (`None` and `Gone` are not statuses, the bounds are numbers) and
`SearchAssumption` (the files whose icon is known are files, the widget shows at least one result, the
bounds are numbers).  The other sets may be of any size; following the selected repository needs no
assumption.  Two theorems have a hypothesis of their own, `AutoSave`; see below.

**WsChannels.**  `ChannelsAgree` is not inductive: a channel becomes open by a `ready` that was sent
long before, and stays right although opens, closes and data of other channels are under way.  The
inductive invariant is `FrontendInv` (`TypeOK`, `OneConnectionPerHandler`, and `Bookkeeping`: ids in
the map have been allocated, to installed handlers; listeners wait only while there is no socket)
together with `Wire` and `ChannelsAgree`.  `Wire` says what is known of each message *as long as it is
in flight*: its id has been allocated; an `open` names the handler its id was allocated for; a
`close` on the current socket is for a channel the frontend has deleted; and a `ready` for a
channel that is still wanted comes from a service that is connected, to the handler of that id.
Besides, a socket that is not yet opened carries nothing, and whatever the backend has connected
is the owner of that id.  The proof has a lemma for each action and each part it can disturb; queues
are handled by facts about `Head`, `Tail` and `\o` of message sequences.  `Abandonment` follows
from `FrontendInv` alone: each other step that takes a handler's channel away gives it a listener
or a new channel.

**JsonRpc.**  Every step of the proxies is a step of the channels or leaves them alone (`NetStep`), so
the invariant of `WsChannels_proofs` is used as it is, with its lemmas.  On top of it `Inv` has four
parts.  `ProxyInv` is `PromiseIsCurrent` and `NoOrphanedCall` with what they need: the calls that wait
for a `connectionPromise` are the proxy's own, each once (`WaitingCalls`), and a connection has promises
for requests of its own proxy only, under a number each, while its channel is open (`Promises`).
A response is matched by its number alone, so `Upward` and `Backward` say of every request, on its way
to the backend, being served, or on its way back as a response, that its number is `Known`: *if* the
connection still has a promise under it, that is the promise of this call.  Such a call was sent, was
executed exactly if it is on the backward part, and is on its way once.  `MadeInOrder` and
`SentInOrder` are about the order: what is not sent comes after what is, and nothing overtakes a
request whose caller still waits, in its queue or by execution; when its caller was told of a failure,
the next connection may overtake it, and that is the exception in `ExecutedInOrder`.  Steps that send
(`CallNow`, `Ready`) have a form in common, `Dispatch` and `Sends`; all others move the queues by at
most one message (`ShiftingStep`).  For the refinement each step is shown to be a step of `RemoteCalls`
or to change nothing there: `ResponseSettles` (a response settles no call but its own, which was
executed) is `Answer`, `ExecutedGrows` (what is executed is new) is `Execute`.

**ReferenceCollection.**  What makes the collection safe is that of all the `DisposableCollection`s
that were ever made for a key, *only the one in the map has members* (`OneCollection`), even when it
was created for another value than that of a member.  `Creations` says that `pendingValues` has the
only creation that runs, `Waiting` that an acquire that is under way knows its value.

**MonacoEditorModel.**  Whether an update fits is decided long before it is sent.  `FileInv` says, for any
preferences and failures, which text the model's changes were made in: in the file as it was when the
resource took its stat, or in what the save that runs has taken, unless the resource is `adrift`
(`FitInv`); that needs an order of the versions that stat, requests and file have (`VersionInv`), because a
stat that is not the file's protects from everything.  `UpdatesFit` is one case of it.  `EditInv` follows the
edits: those of the file are in the text, and those that a save has not taken have cancelled it, so that
its end does not make the model clean; this is where autosave is needed.  Without autosave TLC finds
`NoEditLost` and `CleanMeansSaved` violated (the end of a save takes the edits made meanwhile for saved,
and the next sync replaces the text), and so it does without the exception for `adrift`, with autosave
and `MaxFailures = 0`.

**FileWatching.**  What is said of a *local* id stays true, and what is said of a *remote* id ends with
the connection; the invariant keeps the two apart.  `MappedInv` says that the remote id of every
answer on its way is that of a watcher for the same local id, which is what makes `IdsAgree`
inductive: an id that is mapped to a watcher of the connection before is `Asked` for on this one until
its answer comes.  `WantedInv` adds to `WantedIsWatched` that before the first connection every id in
`watchParams` waits as a request, because the first `onDidOpenConnection` repeats nothing, and that an
`unwatch` on its way is of an id that is not wanted any more.  `OrphansExplained` needs the history of a
client.  `FirstInv` says that the call for a pending id is in one place (it waits, is sent, is being
started, or is answered; the repeats of `reconnect` are not calls that anybody waits for), so that a
promise is settled once.  `ChainInv` says that the ids of a client replace one another: what is wanted
or in `toRestartAll` is its client's last id, there only once and settled, and a client that is not
asking any more has a pending id only if that is not its first.  Each step is first
brought to a form of its own (`Caller` for the three steps that make calls, `Connected`,
`ServedWatch`, `ServedUnwatch`, `Settled`, `Sends`), so that a part of the invariant has to look at
that form only.  That unwatches and repeats are made in the order of the ids
is `Ascending`; `AscendingIs` shows, by counting, that it lists the members of a finite set.  The number of
changes is bounded by a guard of the model, which the proof does not use.

**FileTree.**  `MapHasTree` is about objects that meet in `nodes`, of whatever age.  What an iteration
visits is a recursive function over objects; `VisitedIsReached` shows that it exists and is the least
set with the first object that is closed under `children`, because a child's path always comes after
its parent's (`Formed`: an object's children are in its directory, and one for each path, which holds
of objects that have left the tree as well).  An answer changes the children of one object (`Received`).
If that is outside of the tree, what it touches is in `strayed`; if not, what is below it is put into the
map, and the rest of the tree is as before (`OtherChildren`) and has no path in common with what is
taken out (`SamePlace`: who has in the new tree the path of something that was below the object is still
below it).  `QuietTreeIsCurrent` needs to know of everything under way what it will bring.  `Told` says
that each directory has a version `d[p]` that the frontend has been told of: answers and objects not older
than `d[p]` have the directory's children as they are, or the watcher has a change of it still to tell.
An object that shows its children has one not older than `d[p]`, or is in a call, or in an answer not
older than that; but this holds only of what is `Exposed`: below an object that a call or an answer is
for, nothing is said, because the answer decides what of it is seen.  When it comes, what is put into
view are its children, and those that are expanded are called for at once (`ShowsMore`).  A batch of
changes raises `d`; its directories are called for, or their objects are not found, and then they are
in the wrong of `MapHasTree`, hence in `outdated`.  `NowIsNow` says that what has the version of now is
right, so that a batch that tells what has already been read does no harm.
`ArrowsFollowRows` compares two walks over objects with a sequence.  `SortedIs` says what the sequence is,
by rank; `LoopIs`, that the recursive functions of the two iterators exist, because going up makes the path
earlier and going down makes it later.  Both are then shown to end at a neighbour in the order: the least
row after (`Follows`) or the greatest before (`Precedes`).  Going up to a next sibling, what has been passed
holds no row after where one came from (`Passed`); going down to a last child, every row before the start
that is not above is below (`Nearing`).  This is where the order must be that of a walk (`Nested`), and why the
property asks for parents and children that agree: without it the keys take the way of `parent`, the rows
that of `children`.

**MultiRingBuffer.**  `RingHoldsLast` counts forward from the tail, and each chunk moves the tail.  The
invariant counts *back* from the head (`HoldsBack`): the byte at distance `e` behind the head is
`written - e`, and the tail is where the last of them is.  A chunk then puts its own bytes at the
distances `0 .. size - 1`, and every other byte that remains is `size` further away, whether the copy
wraps or not (`CopiedIs`).  `IncIs` and `IncTailIs` say what the arithmetic of the code comes to: the
tail is moved exactly if the chunk does not fit, and then behind the new head.  Between two callbacks
every reader is at -1, so that `incTails` and `onData` leave the readers there. `StreamsMissNothing`
adds what the streams have got (`ShownInv`): every byte from the stream's first one that was not cut
from a chunk, shown or replaced (`Bare`), and each for the first time only after all smaller ones
(`Ordered`); and a byte that is replaced is of a character that goes over one of the `Borders`
(`Breaks`).  For the last a piece is shown to replace only characters that go on beyond one of its ends
(`TextBreaks`), which are the end of the ring, the end of what was asked for, or the head, where a
character ends because a chunk does.  What a chunk or an attachment appends is `ReadAll`, a recursive
function over the positions.  `PieceIs` says what one `deq` returns at distance `e`: consecutive bytes,
at least as many as it moves the reader by, which is why the rest overlaps but never leaves a gap.  That
the function exists, and what it returns (`ReadCovers`), is shown without an induction theorem: the
distances at which it would fail are a set of numbers, its least element (`Least`, from the
well-foundedness of `Nat`) would read on at a smaller distance, where it does not fail.

**GitStatus.**  `IInv` is `TypeOK`, `StraysFit` (there is room for the watcher among the strays) and
`WatchedIsPolled`.  Each step that takes the timer or a run away from the watcher either starts the
other, or sets `gaveUp`, or is the disposal of the last reference.  `StraysExplained` (an action
property of the module: a watcher without a holder begins to poll in two ways only) holds of every step
from there.

**GitTracking.**  `SelectedIsFollowed` says of a handler that listens what its watch must have come to;
`LatestFollowed` says the same of the handler of the last selection *whatever* its state, and adds the
answer that is on its way, which is what a handler will listen for.  A watch that was asked for twice
(the repeats of a reconnect, and of the first connection) is no harm, as everything is about the local
id; `KeptOn` says that no `unwatch` of the selected id is on its way or waits, `Numbers` that ids are
those of handlers made before, so that a new one finds nothing under its own.  A selection unwatches
everything in `toDispose`, from its end, which the model writes as a recursive function over the
positions; what it returns for every length is shown by a least position at which it would not
(`StepsExist`, `UnwatchedIs`).

**Terminals.**  `OneWidgetPerTerminal` needs to know what *will* be the id of a widget: `Owned` speaks of
ids in a widget, in a request to attach and in an answer, on any socket, also those of former pages.
A call and its answer are one talk, and `Conversations` says that each widget has at most one under way on
the socket of the page, in one place, and what its messages mean for the widget as long as it is.
`Starts` is the converse: a `start` that was sent waits for something under way, and a widget with a
terminal and without a connection will start again.  `OrphansExplained` follows with these, since an
answer always meets the `start` it belongs to.  `ExitsTold` looks at the order of the messages: an
exit that a widget must learn of is told *after* the answer that gives the widget its id, on
the same socket.  The handlers of the backend have one form (`Reply`: take the first message, append
an answer perhaps), those of a page two: what `open` sends (`StartsJoin`, `SendInputs`) and what
an answer does (`Handled`), so that a part of the invariant is shown for these and not for each action.
The type invariant has a part that says more than types: only a process that was spawned is killed.  For that,
every message on every socket, and every call that waits, names a process that was spawned or none (`Carried`).

**SearchInWorkspace.**  A cancellation changes its form: the answer to a search's id, or the id the
widget listens with, becomes a timer or a call, then a message.  The invariant says of every form
that it carries the id of the search's process (`RightIds`); that the latest search with a process is
listened for, or its answer is on its way (`LatestIsHeard`), so that the next key cancels it; and that a
search whose request is still on its way has none of these (`AskedFirst`), so that a process begins with
nothing but its own answer.  For the last one each search is asked for once in a queue (`Once`).
The queues are taken as the sets of what is in them: which of two messages comes first does not
matter here.  The type invariant uses all three invariants: that the ids in the page's maps are ids of servers
follows from each server's being asked for no more searches than there are (`Turns`, of `ShownInv`).

It does for `CancelHitsOwnSearch`, where the danger is a call that waits for the next connection, whose
server counts from zero again: there `OwnInv` comes on top of `IInv`.  A cancel's id is that of its
search *and of no other on this server* (`Own`), which answers, timers and the id the widget listens
with say as well; or the cancel comes from before the server has given any id (`nextId = 0`) and
before all searches in its queue, where it finds no process.  What lies behind a search in a queue
(`Behind`) is therefore not allowed a cancel without `Own`: neither on its way to a server nor among the
calls that wait, where only the cancels in `late` come behind a search, because the token that the
widget still listens with was given its id before any search began to wait (`Fresh(calls)`).

`ShownIsComplete` looks back from the end of the latest search; `ShownInv` follows that search from its
request on.  It is asked for, or its answer is on its way, or the client has its id (`Stages`: what is
not there yet in each of these, and that a search whose end came before its id has found nothing). While
it is in one of them, the tree together with what is in the queue *before* the search's end (`Until`) is
what its process has found (`Arriving`), and a process that finds no more has its end behind all its
results (`Ends`).  Results are attributed by id, so `OneId` says that of all the searches whose messages
or processes there are on this server each has an id of its own; for that searches arrive in the order
in which they were made (`Turns`), none after it has been answered.  Searches in `lost` are outside of
all this, as they are in the property.

**Only model-checked.**  The liveness properties (`SentCallsSettle`, `EditsReachFile`,
`ChangesReachClient`, `TerminalComesBack`, `PagesLearnStatus`, `SearchEnds`): liveness under fairness,
and `ENABLED`, are out of the prover's reach.  All the other properties of passing runs are theorems.
Of the type invariants that are not properties of runs, `FileTree`'s is no theorem: that what is flagged
as selected are nodes depends on what `Selected` returns, a fold with an operator as parameter, and what
a fold returns needs an induction over the stack.  The proofs of `FileTree` keep in their invariant the
types that they need.

## 6 Disagreements between code and docs

Statements of docs, comments and tests that the code does not keep.  One has a run that finds the
shortest way there:

* `NothingReadTwice` (`ring_read_twice`): a `deq` of fewer bytes than lie before the end of a wrapped
  buffer returns all of them and moves the reader by what was asked for; a stream that is attached
  to a process with more than 1 MB of output gets parts of it again and again.

For the others the definition stands in its module; as an `INVARIANT` (or `PROPERTY`) of the module's
configuration it shows the way.

* `NoneAbandoned` (`WsChannels`): `options.reconnecting` is "True by default.", but a handler whose
  channel waits for `ready` when the socket closes is never opened again.  `onclose` disposes
  connections, and such a channel has none (`ws-connection-provider.ts:37-42`, `:86-90`).  A page on which
  this happens to the shell proxy gets no terminal back (`~handler` in `TerminalComesBack`), one on which it
  happens to the search proxy searches for ever (`~handler` in `SearchEnds`), until it is loaded again.
* `SameObject` (`ReferenceCollection`): holders of a key have the same object, says
  `reference.spec.ts`; but an `acquire` that awaits a value which is disposed meanwhile hands it out
  all the same.
* `UnpersistedIsDirty` (`MonacoEditorModel`, with `AutoSave = FALSE`): `isDirty` is "`true` if there are
  unpersisted changes.", but with `editor.autoSave` off an edit does not cancel the save that is under
  way, whose end declares the model clean; another save then does nothing, and closing the editor
  asks nothing.  With autosave on it is violated through `adrift`, see below.
* `OverwritesAsked` (`MonacoEditorModel`): a file out of sync is overwritten only after a question,
  but `doSaveContents` fetches the newest stat first, and so the file is never out of sync when it is
  looked at.
* `StopsGivenId` (`FileWatching`, with three clients): `unwatchFileChanges` stops the watch with the
  given id, but until a reconnect is answered the map has the ids of the connection before.
* `SelectedFlag` (`FileTree`, with three inputs): `selected` is "`true` if the tree node is selected.",
  but the flags are changed by the difference of two selections that are both computed from the rows
  of now: a row that a range no longer has, since a directory was collapsed, stays flagged.
* `StatusIsOfSelected` (`GitTracking`): `workingDirectoryStatus` "Returns the last known status of the
  selected respository", but the answer for a repository selected before can come last.

Behaviour that no doc speaks of, and that the properties had to name as exceptions:

* *Editor.*  `readContents` keeps the stat of what it has read (`file-resource.ts:53`), and `doSync` then
  drops the content when the user has typed meanwhile (`monaco-editor-model.ts:178`).  The next save sends
  its changes with that stat; the backend finds the file in sync and applies their ranges to a text they
  were not made for (`node-filesystem.ts:103-112`), in which edits that were saved before may be replaced,
  and the model is clean over a file that does not hold its text.  It takes no failure, only another
  program's change and one key at the wrong time.  Two more ways lead there: `popContentChanges` takes the
  changes before they are written (`monaco-editor-model.ts:290`), and a save that is cancelled or fails
  after that has lost them; and a late participant's changes are kept when a sync replaces the text they
  were made in.  These three set `adrift` in the model, and a successful write of the whole content ends
  it; but the next incremental update does not write the whole content.
* *Ring.*  `Buffer.toString` of a piece (`multi-ring-buffer.ts:194-197`) replaces the parts of a character
  that goes over the end of the ring, over what was dropped of a chunk that was too long, or over two of
  the pieces a stream reads when it is attached (a multiple of its `highWaterMark`): the terminal shows
  U+FFFD instead.
* *Tree.*  A refresh of an object that has left the tree puts it back into the map (`tree.ts:227`);
  a refresh answered late overwrites what a later one brought; nodes that are reused keep their
  former parent (`file-tree.ts:58`); the changes of a directory that is not loaded because the
  stored root was collapsed are lost.
* *Terminals.*  A message that the backend reads late from an old socket makes that one the client of
  exits again (`base-terminal-server.ts:68`); the call that closes a process is lost when the page
  is loaded again; a `start` is not cancelled by `dispose`; a process that could not be spawned stays
  registered; widgets are told apart by a time in seconds.
* *Search.*  "We therefore need to keep those events until we get the search id"
  (`search-in-workspace-service.ts:51`): but the test whether an end is of a search to come
  (`:88`) compares ids, which start again at zero on a new connection: the end of a search that
  fails at once is then dropped, and the search never ends; and one that was kept on the connection
  before ends another search (both are in `lost`).  `onResult` awaits a file's icon before it puts the
  first match into the tree (`search-in-workspace-result-tree-widget.ts:170`): the matches that come
  meanwhile replace one another, after the end nothing shows them, and the tree may be that of the
  next search.  Searching for nothing does not cancel the search that runs (`:147`), whose results are
  shown when it ends.  A server is not told to stop its processes when its connection closes
  (`ripgrep-search-in-workspace-server.ts:305`).
* *Git.*  The event that tells a new page the status is lost when that run of git fails
  (`git-repository-watcher.ts:70`); a watcher disposed during a run polls on for ever (`:71`); on the
  first connection every watch is sent twice (`git-watcher.ts:95` and `:123`);
  `unwatchGitChanges` deletes by remote id from a map of local ids (`:108`).

## 7 What is not modelled

* In the modelled parts: notifications from services to clients and services that call back (`JsonRpc`);
  `clear` and a second disposal of the same reference (`ReferenceCollection`); order within a text,
  participants that never answer, other programs' writes *within* one request of the backend (its stat,
  read and write are one step), moving and deleting files (`MonacoEditorModel`); patterns of ignored
  files, and what a server does after it was disposed (`FileWatching`); changes of a directory between
  its `readdir` and the `stat` of its children (the answer is one look at it), copying, moving and
  uploading files, the filter and the history of navigation (`FileTree`); named readers, which only
  tests use, and encodings other than UTF-8 (`MultiRingBuffer`); resizing, typing, raw processes and
  tasks (`Terminals`); git commands, the history and views, and what a status contains (`GitStatus`,
  `GitTracking`); replacing and removing results, the preview and the decorations, the parsing of
  ripgrep's lines, and servers whose connection is gone (`SearchInWorkspace`).
* The web socket, `vscode-ws-jsonrpc`, nsfw, monaco, node-pty, git and the file system's own behaviour are
  external: they are modelled by what the code relies on.
* The components without lasting concurrent state, generated code, and language packages.

## 8 The plan

The most important behaviour first: everything depends on the channels, then on the proxies; then
the user's data (saving); then what is shared and cached (references, watching); then what the user
works with over all of these (tree, terminals, git, search).  That much is done.

1. Next modules: the alive loop of the connection status, the cluster (master and workers with
   timeouts), the plugin RPC, navigation history.  Ordered contents for `MonacoEditorModel`; a second
   disposal for `ReferenceCollection`.
2. Abstract specifications: "at most one loop" for the alive and git loops; a served/unserved switch
   for the cluster.
3. Proofs: the type invariant of `FileTree`, with `Selected` as a recursive function instead of a fold.
