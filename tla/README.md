# Verification of the game backend and the game's page

TLA+ modules, TLC configurations and TLAPS proofs for the Java backend under
`src/src/main/java/no/bachelor26/` and for the scripts of the game's page it serves,
under `src/src/main/resources/static/game/`. Java paths below are relative to the first
directory, `index.*` to the second; line numbers are those of this commit.

## 1. Inventory: the system and its parts

The backend serves a game client over one WebSocket endpoint (`/game`). A player
asks for a task, parses it, plays it, asks for hints and hands in a flag; a right
flag unlocks the next task. Tasks, hints, users and what a user has unlocked live
in a relational database; everything else lives in two hash maps in memory.

| part | state it keeps | operations | talks to |
|---|---|---|---|
| `WebSocket/Game/GameHandler`, `User/UserSessions/UserSession` | per connection: a `UserSession` with the player's state (`IDLE`, `PARSE_STANDBY`, `ACTIVE_TASK`) | `afterConnectionEstablished`, `handleMessage`, `afterConnectionClosed` | the container calls it; it calls `WebSocketSender`, `MessageRouter`, `TaskService` |
| `WebSocket/Game/MessageRouter` | none | routes a message by state and type; answers a type the state does not have with an error | `TaskService`, `WebSocketSender` |
| `WebSocket/WebSocketSender` | `activeSessions`: user id -> connection | `appendSession`, `removeSession`, `send`, `sendError`, `handleDisconnect` | the container (`sendMessage`, `close`), which may call `GameHandler` back |
| `Tasks/TaskService` | none | one handler per message type; `editOrCreateTask` | all services below |
| `Tasks/TaskSessions/TaskSessionService` | `activeSessions`: user id -> `TaskSession` (task, flag, hints with a *retrieved* mark) | `startTaskSession`, `validateFlag`, `retrieveHint`, `completeSession`, `cancelSession` | called by `TaskService` |
| `Tasks/TaskAccess/TaskAccessService` | table `user_task_access` | `userHasAccess`, `grantUserAccess`, `grantNewUserAccess` | database |
| `Tasks/Hints/HintService` | table `hints` | `getTaskHints`, `editOrCreateHints` | database |
| `DataInitializer` | tables `tasks`, `hints`, `users` | `run`: task files, then static users | `TaskService`, `HintService`, `UserService` |
| `User/UserService` | table `users` | `registerUser`, `initializeStaticUsers` | `TaskAccessService` |
| `Tasks/TaskProcesser` | none | substitutes `${flag}` and `${username}` in texts | called by `TaskService` |
| `Security/*`, `Filter/*`, `User/UserController` | none in memory | registration, login, JWT | `UserService` |

The page at `/game/index.html` loads and runs the game in the browser:

| part | state it keeps | operations | talks to |
|---|---|---|---|
| `index.html`, `Features` of `index.js` | the status overlay: which mode, whether it is still there | the script of the page; `getMissingFeatures` | `Engine` |
| `Engine` | shared: `loadPromise`, `loadPath`, `initPromise`; per instance `config`, `rtenv` | `load`, `unload`, `init`, `preloadFile`, `start`, `startGame`, `copyToFS`, and the continuations of their promises | `Preloader`, `InternalConfig`, the compiled runtime (line 1 of `index.js`) |
| `InternalConfig` | the options of an instance | `update`, `getModuleConfig` with `locateFile`, `getGodotConfig` | the DOM |
| `Preloader` | a status per file, what was reported last, `preloadedFiles` | `loadPromise` with retries, tracked responses, `preload`, `animateProgress` | `fetch`, streams, timers, frames |
| `index.audio.worklet.js`: `RingBuffer`, `GodotProcessor` | two rings, on the audio thread | `parse_message`, `process` | messages from and to the page; shared memory in a build with threads |
| `GodotAudioWorklet` (line 1 of `index.js`) | the page's side of the rings | `create`, `start`, `start_no_threads`, `close` | `GodotProcessor`, the engine |
| `index.audio.position.worklet.js` | a counter | `process` | the engine |

What is hard in it:

* **Concurrency.** Nothing is synchronized but `handleMessage` on its own
  connection's `UserSession`. Both maps are keyed by *user*, the callbacks come by
  *connection*, and `GameHandler:36` binds every connection to the same user, so
  connections share map entries all the time. Each map method is a few separate
  `ConcurrentHashMap` calls.
* **Failure.** Sending may fail with an `IOException` (handled by closing the
  connection registered *now*), or be refused by the container with an unchecked
  exception; an exception that leaves a handler closes the connection; the
  database may fail; the process may stop at any point.
* **Re-entrance.** `close()` runs `afterConnectionClosed` before it returns, in a
  thread that may be in the middle of another connection's handler.
* **Restart.** `DataInitializer.run` is a loop of one transaction per row and has
  to complete what an earlier run left.
* **Promises and the network.** The page's script is one thread, but each `then` runs
  later, when shared variables (`loadPromise`, `initPromise`, `loadingFiles`,
  `preloadedFiles`, `rtenv`) may be another download's or another call's. A fetch may
  fail and be tried again, a stream may break off in the middle, and any of the calls of
  the `Engine` may come in between.
* **The audio thread.** It reads a ring every few milliseconds, while the page, in the
  build without threads, refills it by messages, and another thread, in the build with
  threads, writes the same memory at the same time. Positions go round the end of the
  buffer.

What makes the parts correct: the registry names a connection that is still there
(sender); a reply reaches only its own user (sender); the per-connection state
follows the documented machine (router); a task session is for a task the user may
play, only hints of that task are marked in it, and it does not outlive the next close
of a connection of its user (task sessions); the
table of unlocked tasks grows along the chain of tasks, and a player who is told
"correct" has the next one (access); every handler returns and every closed
connection is forgotten (liveness); a startup ends, and one that finds its task files
leaves every good file
complete in the database, whatever was cut off before (initializer); the texts of a
task come out with every variable replaced and nothing else changed, whatever the
texts (processer). On the page: what is mixed is heard, in order and once
(audio); a download is whole or given up, and the bar tells the truth (preloader); the
game is started once, with its pack, and the player is told when it is not (engine,
page).

## 2. Modules

| module | models | EXTENDS / INSTANCE |
|---|---|---|
| `GameBase` | static data, connections, the container thread of each connection | |
| `WebSocketSender` | the registry, `send` step by step | `GameBase` |
| `TaskSessionService` | the map of task sessions, step by step | `GameBase` |
| `TaskAccessService` | `user_task_access` | `GameBase` |
| `TaskService` | one action per message handler | the two above |
| `GameServer` | `GameHandler`, `MessageRouter`, restart; the whole system | `WebSocketSender`, `TaskService` |
| `GameProtocol` | abstract: what a player is promised | |
| `GameProperties` | the properties, the inductive invariant, the refinement mapping | `GameServer`, INSTANCE `GameProtocol` |
| `GameServer_proof` | proofs of what holds in every behaviour | `GameProperties`, TLAPS |
| `GameOrderly_proof` | proofs of what holds for users who do not overlap | `GameServer_proof` |
| `GameProtocol_proof` | proof of the refinement | `GameOrderly_proof` |
| `TaskSeeding` | `initializeTasks`, `editOrCreateTask`, `editOrCreateHints` | |
| `DataInitializer` | `run`, static users, stops and starts; its properties | `TaskSeeding` |
| `DataInitializer_proof` | proofs | `DataInitializer`, TLAPS |
| `TaskProcesser` | `getAndProcessTaskComponents`, `process`, `processPart`; its properties | |
| `TaskProcesser_proof` | proofs | `TaskProcesser`, TLAPS |
| `AudioRing` | `class RingBuffer`: operators on a ring | |
| `AudioSamples` | the numbers samples are told apart by, the sizes of the output | |
| `AudioWorklet` | `GodotProcessor`, `GodotAudioWorklet`, the messages, the engine's audio thread | `AudioRing`, `AudioSamples` |
| `AudioStream` | abstract: what the driver promises the engine | `AudioSamples` |
| `AudioProperties` | the properties, the inductive invariant, the refinement mapping | `AudioWorklet`, INSTANCE `AudioStream` |
| `AudioWorklet_proof` | proofs | `AudioProperties`, TLAPS |
| `EngineConfig` | `InternalConfig` | |
| `Preloader` | `Preloader` | `EngineConfig` |
| `Engine` | `Engine` | `Preloader` |
| `GamePage` | `index.html`, `Features`; the whole page | `Engine` |
| `PageProperties` | the properties of the page | `GamePage` |
| `PageProperties_proof` | proofs of what holds whatever other scripts call: modules, file names, types | `PageProperties`, TLAPS |
| `PageAlone_proof` | proofs about the page's own game and its progress bar | `PageProperties_proof` |
| `MCGameServer`, `MCDataInitializer`, `MCTaskProcesser`, `MCAudioWorklet`, `MCGamePage` | small instances for TLC | |

### How the game server's state and actions correspond to the code

Every connection `c` has a container thread. `pc[c]` is where it is, `frame[c]` the
locals of the Java methods that outlive a step. A handler is cut **at every access
to state another thread can see**: one action per `ConcurrentHashMap` call, database
call or socket call, together with the thread-local code in front of it. So all
races between two accesses are in the model, and no others.

| variable | code |
|---|---|
| `registry` | `WebSocketSender.activeSessions` |
| `activeTasks` | `TaskSessionService.activeSessions`; a session is an identity, a task and the set of hint indices whose `retrieved` is true |
| `access` | rows of `user_task_access` |
| `state[c]` | `UserSession.state` |
| `socket[c]`, `closer[c]` | the container: whether the native session is open, and how far `afterConnectionClosed` has come |

A message is handled like this: `HandleMessage(c)` is the arrival, the router and the
handler up to its first shared access; then come the labels

    append                               appendSession's put
    start put                            startTaskSession
    abort                                cancelSession in respondToParseStatus
    check complete fetch remove          validateFlag, completeSession
    grant save                           grantUserAccess
    take                                 setRetrieved in retrieveHint
    send get write disconnect await      send, getSession, sendMessage, handleDisconnect

The data is abstracted to what the code branches on: a reply is `"ok"`, `"error"` or
the answer to `"task"` (after which `respondToTask` still changes the state); a flag is
right or wrong; the texts are left out. `TaskSession` identities are kept, because a
handler may hold a session that has left the map; they are recycled when nobody
refers to them (`SessionIdsAssumption`: there is always a free one).

Assumptions about what is not in the repository (marked `external` in `PROJECT.json`):
Spring's exception decorator closes the connection when an exception leaves a handler;
`close()` has one winner, which runs `afterConnectionClosed` once before it returns;
the messages of one connection are handled one after the other; `sendMessage` on a
closed socket, or on one another thread is writing to, throws an unchecked exception,
and on an open one may throw an `IOException`. Each of these can be read off the
container's contract; the last is the reason for the nondeterminism in `SendWrite`.
Database calls that only read before anything has changed may fail too: that is
`HandleMalformedMessage`.

`UserOf` generalises `GameHandler:36`. Today it is constant (`SharedUserOf`); the runs
with a user without a special role show what happens when `TaskAccessService`'s other
branch is reached. `AccessInit` allows a user to have, or not have, the first task,
since both happen (`initializeStaticUsers` grants it, `registerUser` does not).

`Restart` empties maps, threads and connections at any point and leaves the database.

**Orderly clients.** Several properties fail when two connections of a user overlap,
which the violation runs show. `OrderlySpec` restricts the *environment*: a
user connects again only when the previous connection is closed, its close callback has
run and its handlers have returned. Everything else stays: restarts, closes between
two messages, `IOException`s and the close from within `send`, failing databases.

### How the startup's model corresponds to the code

`boot` is the cursor of the main thread: step, file, hint, static user. A task or hint
row is told apart by the *version* of the task files it was written from, or `None`.
`ListTaskFiles` is the resolver's listing: when it throws, `initializeTasks` logs that and
returns, and `run` goes on with the static users, over the tables as they are
(`boot.listing`, `Listed`). What the tables hold then is promised by no line of the code,
and the properties that speak of the files of a start are about those that found them.
`Start` picks the deployed version and the setting `edit-existing-tasks` (`editing`),
`Stop` may come between any two transactions (a
stop, or an exception that leaves `run`, which ends a Spring Boot process). An invalid
file is passed over. `createTask` and `createHints` have no caller and are left out.

### How the model of `TaskProcesser` corresponds to the code

A text is a sequence of pieces: the marks `VARIABLE_REGEX` and the last `replace` look for
(an opening `${`, a closing `}`, a backslash), the names `flag` and `username` in two
spellings each, and stretches of other characters (`Words`), cut so that no pieces make a
mark or a name together. `Matches` is the regular expression: an opening without a
backslash in front, anything but a `}` and not nothing, and a `}`. An opening without its
own `}` therefore reaches to the next one, over other openings too: `${x ${flag}` is one
unknown variable, and the flag in it stays as it is. `found`, `ending` and `name` are the
match. `Unescaped` is the last `replace`: two backslashes in front of *any* opening go,
also of one that is never closed.

`part` is the loop over `extraDesc`, the data values and the hints; `pos` and `last` are
the matcher's search and append positions. `AppendPiece` is what
`Matcher.appendReplacement` does with a replacement (external): a backslash quotes the
next piece, `$0` and `$1` are groups, any other `$` throws; `Magic` are the pieces of a flag
it reads so. `Shown` says what a player should see, piece by piece and without the loop:
`Begins` says where a variable can begin by what comes before it, not by what a matcher
has consumed.

### How the audio driver's model corresponds to the code

`threads` chooses the build: the page of this repository ships the one without threads
(`GODOT_THREADS_ENABLED = false`), and the worklet's script serves both. A sample is a
number; the engine numbers them as it mixes them, the microphone as it gives them, and
the numbers go round after `Samples`, more than fit a buffer, so that a lost, doubled or
moved sample is always seen.

| variable | code |
|---|---|
| `output`, `input` | the two `RingBuffer`s of `GodotProcessor`; `avail` is a number, or an element of the shared state that `Atomics` change |
| `ready`, `running` | `this.output !== null`, `this.running` |
| `outputBuffer` | `this.output_buffer`, the block handed to the speaker |
| `stage` | where `process` is |
| `toWorklet`; `reads`, `inputs` | messages to the audio thread; the `read` and `input` messages to the page, which are counted, or queued, apart because the page's handler treats them independently |
| `heap`, `wpos`; `inHeap`, `inPos` | the page's buffers and positions in `start_no_threads` |
| `promise`, `asked`, `connected`, `closing` | `GodotAudioWorklet.promise` and how far `start` and `close` have come |
| `thread`, `filled`, `notified` | the engine's audio thread, which is compiled and modelled from how the rings are used |

`process` is cut where another thread can see the difference: reading or writing the
samples, and the `Atomics.add` that counts them, are two steps (`ProcessOutput`,
`ProcessOutputAdd`). Between two calls of `process` the audio thread serves a message.

### How the page's model corresponds to the code

A promise is where its work is: a download is a record `preloader.loads[l]` with `at`
among *fetch, timer, body, lost, closed, kept, rejected*, a promise of `init` a record
`engine.inits[i]` with the module it makes. A method runs to its end in one step, as the
event loop runs it, and is written as an operator from the shared variables to the shared
variables, so that `StartGame` is literally `update`, `init`, `preloadFile`; each
continuation is an action that is enabled when its promise has settled. A status object
has an identity, because two downloads of a file may hold the same one, and which it is
is looked up when the response comes (`Respond`), as in the code. `returns` in `StartRuns` is whether `callMain` comes back or
throws. `GameStarted` shows `statusMode = "hidden"` for the overlay that is removed.

Left out: `requestQuit`, the service worker (the configuration names none), the wording of
notices, and a second instance: the page makes one, and the array of arguments that two
instances made from one configuration would share is not told apart. The runtime in line 1 is reduced
to what it resolves: instantiation may fail, `initFS` always resolves, `callMain` puts the
program's name in front of the very array it is given.

## 3. Runs

Game server, `MCGameServer`:

| run | instance | checks | states |
|---|---|---|---|
| `overlap` | 2 connections of one user without a special role, fair threads | `RegistryLive`, `SessionAuthorised`, `AccessChain`, `HintsOfOwnTask`, `DocumentedTransitions`, `HandlerReturns`, `ClosedIsForgotten`, `CloseEndsSession`, and `IInv` for the proofs (`TypeOK` is a part of it) | 111 637 |
| `orderly` | 3 connections of a user, one after the other, 2 hints, indices 0 to 3 | `ActiveHasSession`, `RegisteredWhileServed`, `SolvedIsUnlocked`, refinement `ImplementsProtocol` | 16 812 |
| `left_in_session` | 1 connection | violates `IdleOutsideTask` | |
| `shared_unanswered` | 2 connections of one DEV user as today | violates `RegisteredWhileServed` | |

Startup, `MCDataInitializer`:

| run | instance | checks | states |
|---|---|---|---|
| `seeding` | starts with either setting of `edit-existing-tasks` and either of two versions of three files, a listing that may fail | `SeedingComplete`, `HintsFollowTask`, `RowsAreCurrent`, `RowsAreKept`, `StartupEnds` | 29 577 |
| `seed_stale_hints` | the same | violates `HintsMatchFile` | |

Texts, `MCTaskProcesser`:

| run | instance | checks | states |
|---|---|---|---|
| `processer` | every text of up to four of seven pieces and five of five pieces, longer samples, tasks of three texts; plain flags and flags with `$` and backslash | `PartsAreShown`, `FailsOnFlagOnly`, `ProcessEnds` | 171 204 |
| `flag_dollar` | the same texts, flags with a `$` | violates `FlagIsShown` | |

Audio, `MCAudioWorklet`:

| run | instance | checks | states |
|---|---|---|---|
| `audio` | both builds; 2 channels, blocks of 2 frames, an output buffer of 3 frames, an input buffer of 4 samples, a microphone of none to 2 channels | `TypeOK`, `SamplesConserved`, `ChunksFit`, `ChannelsInStep`, `CapturedAsSpoken`, refinement `ImplementsStream`, `KeepsPlaying`, `CloseResolves` | 76 571 |

Page, `MCGamePage`:

| run | instance | checks | states |
|---|---|---|---|
| `page` | the page's configuration, files of one chunk, two attempts, one call of another script | `TypeOK`, `FindsItsFiles`, `RtenvIsLive`, `RunsWithItsPack`, `StatusTellsTheTruth`, `BarReachesItsEnd`, `BarNeverBack`, `PageAnswersUnlessHung` | 324 380 |
| `page_hangs` | no other script | violates `PageAnswers` | |
| `preload_twice` | as `page` | violates `PreloadedWhole` | |

What the violation runs show:

* `left_in_session`: a `parse-status` with an unknown status puts the player in `IDLE`
  but keeps the task session; from then on `"task"` is answered "dupe session" until the
  connection goes. `websocket-API.txt` says `IDLE` is the state outside a task.
* `shared_unanswered`: `afterConnectionClosed` goes by user. That of one connection, also
  of one that was refused, removes the entry of another connection of the user from the
  registry, so that messages are handled but not answered. `websocket-API.txt` promises
  an answer.
* `seed_stale_hints`: a hint a newer file no longer has stays, although
  `editOrCreateHints` is said to initialise or edit *all* hints of the task.
* `flag_dollar`: a static flag with a `$` makes `appendReplacement` throw, so the task
  cannot be started by anybody, or has its `$1` replaced by the variable's name. The
  comment of `processPart` says the flag replaces `${flag}`. No task file of this commit
  has such a flag; `Matcher.quoteReplacement` is missing.
* `page_hangs`: `doInit` passes no rejection on, and neither `getTrackedResponse` nor
  `instantiateWasm` handles an error. When the engine's file is given up after the last
  attempt, or its stream breaks off, or it cannot be instantiated, `startGame` never
  settles, and the page shows the progress bar for ever instead of the notice it has for
  a failed start. `Hung` lists these ways; `PageAnswersUnlessHung` shows there is no other.
* `preload_twice`: two downloads of a file at once share a status object; when the first
  is through, the second's stream is closed early and its promise resolves with a part of
  the file, which is then copied into the file system. The page alone never downloads a
  file twice.

Everything the run `orderly` checks is lost when two connections of a user overlap: TLC
refutes each of its four properties under `Spec` with the constants of `overlap`.

* `ActiveHasSession`: the close callback of one connection cancels the session another is
  playing.
* `RegisteredWhileServed`: the removal from the registry goes by user (`shared_unanswered`).
* `SolvedIsUnlocked`: the session goes between `validateFlag` and `completeSession`, which
  then grants nothing, and the player is told "correct".
* `ImplementsProtocol`: all of these, and two `task` messages that both pass
  `userInActiveSession`, or two threads that both pass `isRetrieved` before either calls
  `setRetrieved`, are no steps of `GameProtocol`.

In `orderly` the handlers and close callbacks of a user run one after the other, so that
run shows nothing about these races: it is about sequences of connections, failed sends,
closes from within `send`, failures of the database and restarts. What holds under the
races is in `overlap`. A session that is put while its connection is closed does stay
behind without a player; `CloseEndsSession` says that it does not outlive the next close
of a connection of the user.

Comments that two settings divide: `DataInitializer.java:64` says that *nothing happens*
for a task that exists, `editOrCreateTask` that a row that exists is *edited*. The first is
so with `edit-existing-tasks: false`, as `application.yaml` ships it, and is `RowsAreKept`;
the second with `true`, and is `RowsAreCurrent`.

On the page, `TypeOK`, `FindsItsFiles`, `RtenvIsLive` and `StatusTellsTheTruth` hold
whichever method the other script calls, with the names of the export. `RunsWithItsPack`, `BarReachesItsEnd`, `BarNeverBack`
and `PageAnswersUnlessHung` are about the page's own start, and hold until that call
(`Alone`): a script that unloads the engine, or preloads the pack once more, does change
what the start waits for.

`CapturedAsSpoken` leaves out one case on purpose: without threads, a block of the
microphone that goes over the end of the input buffer loses samples, because the page's
`receive` copies `recv_buf.subarray(high, to_write)` for the second part, where `to_write`
is the number left, not an index.

### Bounds, and why they are enough

* Two connections in the runs with overlap: the interesting interleavings are of two
  handlers, or a handler and a close callback, on the same map entry. A thread closes one
  connection at a time, so a third adds a third party to the same races; with three and
  the full specification the state space is out of reach. The proofs have no such bound,
  and `RepliesStayWithUser`, which needs a second user, is only proved.
* Three connections in `orderly`, so that a connection follows one that itself followed.
* Two tasks (one unlocks the other, the other nothing) and an id without a task: every
  branch of `respondToTask` and `completeSession`. Up to two hints, and indices below,
  in and above their range: every branch of `retrieveHint`.
* `SessionIds`: one more than can be referred to at once, so a fresh object is always
  distinguishable; the least free one is taken because only equality is looked at.
* `processer`: a variable is three pieces, so four fit one with something next to it or an
  opening that reaches across another, five fit an escaped variable or an unfinished
  opening before a whole variable; the longer samples have variables side by side, one in
  the name of another, three backslashes, and escapes inside names that never end.
* `seeding`: two versions that differ in each way that matters (a hint more, a hint fewer,
  a file that was broken), two static users (the loop goes on from one to the next).

* `audio`: an output buffer that no whole number of blocks fills, so that blocks end
  before, at and over its end, and a chunk is split in every place a frame allows; two
  channels and two frames are the least for which the order inside a block matters. At
  most one microphone block waits (`MaxPosted`). `Samples` is larger than the buffer.
* `page`: `DOWNLOAD_ATTEMPTS_MAX` is 2 (the code has 4): a first attempt, one after a
  timer, and giving up are all different steps of `retry`. A body is one chunk and then
  its end: a download may be cut off, or break off, before, between and after. Three downloads,
  six status objects, two promises of `init` and two calls are what a page and one further
  call can use (`RoomFor`, `RoomForCall` name where the bound cuts). `MaxOtherCalls` is 1:
  one call of any method in any state, on the page's instance.

`Restart` and `Stop`/`Start` are always possible, so TLC's deadlock check is on
in these runs but tells little: `HandlerReturns` is the property about waiting. It is off
for `TaskProcesser`, the audio driver and the page, which really end.

### Fairness

`FairSpec` of `GameServer` has weak fairness of each connection's handler and close
callback: the JVM goes on running a runnable thread, and no step of theirs waits for a
lock another thread holds (the `synchronized` block is on the connection's own
`UserSession`, and the container serves a connection's messages one at a time). There is
none for clients: no message has to arrive, no connection has to be opened or closed.
`FairSpec` of `DataInitializer` has weak fairness of the main thread, and none of
`Start` or `Stop`. `TaskProcesser` is one thread that runs on.

`FairSpec` of `AudioWorklet` has weak fairness of `process`, of the engine's thread, of
the promises' continuations and of the page's messages: the browser calls `process` for every
block, and delivers what was posted. Messages to the audio thread have strong fairness,
since they are served between two calls of `process` and a call under way disables them
for a moment. Nobody has to create, start or close the driver. `FairSpec` of `GamePage`
is weak fairness of the event loop as a whole: while a download, frame, timer or
continuation can go on, one of them does. It may always choose to fail a read or a fetch,
and games need not end.

## 4. The abstract protocol

`GameProtocol` is the server without threads, registry and lookups: a user joins, starts
a task he may play, accepts or rejects it, gets hints, each once, solves it and is *owed*
the next one until it is written down, or leaves and loses what was owed.
`ImplementsProtocol` says every step of `GameServer` under `OrderlySpec` is a step of it
or a stutter, under the mapping in `GameProperties`. Two details of the mapping show where
the code's order differs from its meaning: a thread that is sending the answer to `"task"`
counts as `PARSE_STANDBY` although the state changes after the send, and a thread at
`grant` or `save` counts as `IDLE` although the state changes at the end (`OpenPhase`;
`Owed` is what such a thread has yet to write down). `GameProtocol_proof` proves it.

`AudioStream` is a buffer between the engine and the speaker: mixing brings the engine
ahead by any number of samples, up to a buffer; playing hands the speaker the next block, in the order
of the numbers; closing loses what was not heard. `ImplementsStream` maps the block
`process` has taken last to what was heard, and to the distance everything that is
mixed and not heard, wherever it is: in the ring, taken but still counted, mixed but not
counted yet, or in a message. Both builds implement it.

## 5. Proofs

Checked by TLAPS for all values of the constants that satisfy the named assumptions of
`GameBase`, `TaskSeeding`, `DataInitializer`, `AudioSamples`, `AudioWorklet`, `Preloader`,
`Engine` and `GamePage` (types of
the constants; `None` apart from everything; unused session and status identities exist;
every file has at most `MaxHints` hints; a block fits the output buffer, and the numbers
that stand for samples do not come round within a buffer or a block of the microphone; the
page's configuration names an executable, has no arguments, and
its wasm file and its pack are two files, as in `index.html:114`). Six theorems have a
hypothesis of their own, `BlocksFit`, `SizesKnown`, `ScriptsKeepTheName` or
`ScriptsUseTheFiles`, which are explained below; the instances TLC checks satisfy them.

`GameServer_proof`. `Inductive` proves `Spec => []IInv`. The properties are not
inductive by themselves, because threads act later on what they read earlier; `IInv`
adds what a thread at a label knows by its locals:

* `ThreadsOK`: a thread at `start`/`put` asks for a task that exists and that its user may
  play; any session a thread *holds*, in the map or not, is of a task its user may
  play; at `grant`/`save` that task unlocks something; at `write`/`await` the target is a
  connection of the thread's user. The first two survive other threads because `access`
  only grows; that is how `SessionAuthorised` and `AccessChain` survive the gap between
  check and use.
* `SocketOK`: `afterConnectionClosed` runs exactly for closed connections, and a
  connection at `append` is still open. With `RegisteredWasOpened` this is why the put of
  `appendSession` never comes after the `removeSession` of the same connection
  (`RegistryLive`).

The proof groups the actions by what they may disturb: lemmas for `Respond`, `Throw`,
`Finish`, `Goto` (the ends of nearly all handlers) are cited by one lemma per action, and
those by the step lemma. From `Inductive` follow `TypeCorrect`, `RegistryIsLive`,
`RepliesStay`, `SessionsAreAuthorised` and `AccessFollowsChain`.

`StatesFollowDiagram` proves `DocumentedTransitions`. A handler writes the state steps
after the router read it; what makes that safe is `StateKnown`, the state at each label
(`start` and `put`: `IDLE`; `abort`: `PARSE_STANDBY`; `check` to `save`: `ACTIVE_TASK`;
a reply to `"task"` is only sent in `IDLE`), which other threads cannot change because
the state belongs to the connection.

`HintsStayWithTask` proves `HintsOfOwnTask`. `retrieveHint` looks the session up once and
marks the hint later, when another thread may have put a session of another task in its
place. `HintsKnown` says what makes that harmless: the hint a thread at `take` asks for is
one of the task of the session it holds, and a session in the map with the identity of a
held one has its task, since no identity is given to a new session while a thread holds it.

`GameOrderly_proof` is about `OrderlySpec`, where the map and the registry are keyed by
user and a user has one connection that is live. `OrderlyInductive` proves `OInv`:

* `RegisteredWhileServed`: the connection is the one its user is registered with, so
  that `send` and `handleDisconnect` find the handler's own connection.
* `SessionsHeld`: what a handler at a label knows of the *map*. From `complete` to
  `remove`, and at `take`, the session in the map is the one it holds; at `take` the hint
  has not been handed out; at `put` there is none; outside `IDLE` there is one, except at
  `grant` and `save`, where it has gone and the state has yet to follow.
* `OpenWhileServing`, `BeginsIdle`: a handler under way has an open socket, unless it waits
  for its own close; a new connection is in `IDLE`.
* `SessionHasPlayer`: a session's user is connected or `cancelTaskSession` is to come, so
  that a new connection finds none of an earlier one.

Every handler ends in one of a few ways (`Respond`, `Finish`, `Throw`, `Goto`), and `MoveOrderly`
and `CloseOrderly` say once what these keep; the lemma of an action only shows
that what it leaves behind, `ThreadHolds`, is true. `OnlyOne` is where the absence of
overlap is used. The invariants `ActivePlayersHaveSession` and
`ServedAreRegistered` are read off `OInv`; `SolversGetTheirTask` is an action property, for
which `GoesOnAlone` says that only a handler's own step moves it, other than back to `idle`.

`GameProtocol_proof` takes every action to the protocol: `Shows` says what the mapping
shows after a step of one connection, `Unseen` that it shows nothing new. Opening, closing,
`StartPut`, accepting or rejecting, `TakeHint`, `CompleteRemove`, the two steps of the
grant, cancelling and `Restart` are steps of `GameProtocol`; all others are `Unseen`.

`DataInitializer_proof`. `SeedInv` relates the cursor to the database (`Progress`): the
files in front of the cursor are present, and so are the current file's task and the hints
in front of the hint cursor. Rows are never removed (`Grows`), so what is present stays
present over stops. A start whose listing fails comes to the users with `Listed` false, and
the invariant promises nothing of it but `HintsFollowTask`. `RowsStay` is the action property
`RowsAreKept`, by cases over the steps. From the invariant follow `SeedingIsComplete`
and `HintsComeAfterTask`. `RowsGetCurrent` has an invariant of its own,
`CurrentSoFar`: with the setting to edit, what is behind the cursor is of the version
deployed now; a step only ever writes that version, so what is behind stays so. `TypeCorrect` adds that a user who is saved or granted access is one of the list.

`AudioWorklet_proof`. `DriverInvariant` proves `Spec => []AudioInv`, and
`DriverImplementsStream` the refinement from it. What `AudioInv` says, part by part:

* `MessagesInOrder`: to the audio thread go one start, then chunks, then one stop. It is why
  no chunk meets a processor without a ring.
* `ChunksCounted`: without threads, the samples in the ring, the reads that wait for their
  answer and the chunks under way add up to one buffer as long as the driver is open, and
  to no more after that. It is why `write` needs no test for space.
* `ThreadLeavesSpace`: what the engine's thread has mixed and not counted fits beside what
  is counted, although `process` counts down in between.
* `RingInOrder`, `ChunksInOrder`: from `rpos` on, once round the buffer, stand the samples that are due
  next; the first chunk goes on where the ring ends, each chunk where the one before
  it ends, and the engine's next sample where the last ends. In the build with threads
  the engine's position is where the ring ends.
* `FirstBuffer`: the samples the page sends with start are those the stream begins with.

None of these holds by itself: a chunk is in order only because of the message before it,
and fits only because of the count. The proof first has lemmas about positions that go
round (`SlotAdd`, `SlotDistance`, `AfterReadAt`, `AfterWriteAt`, `SentIsMixed`), then
`RingExtended`, which says what a write of the next samples does to a ring in order; then
one lemma per action that touches the output, and one for all those that do not. `Step`
reads the refinement off the same lemmas, action by action.
`DriverConservesSamples`, `DriverChunksFit` and `DriverChannelsInStep` follow from the
invariant; the last because a block of numbers in order, begun at a frame, is interleaved
as `write_output` undoes it.

The microphone has an invariant of its own, `InputInv` (`DriverInput`), since
`CapturedAsSpoken` speaks only of the block the engine has just been given. With threads,
`InputRingInOrder`: from the engine's position on the ring holds the samples it takes next,
those the processor has written and not counted yet included, and what it has counted down
but the processor has not seen excluded (`Waiting`); the two `Atomics.add` come at
different times on both sides. Without, `InputsInOrder`: each block under way goes on where
the one before it ends. A block that is larger than the engine's buffer is dropped by the
page with an error ("Input chunk is too big"), and then samples are missing; therefore
`DriverCapturesAsSpoken` has the hypothesis `BlocksFit`, which the instance meets with
equality. `DriverTypeOK` needs no such hypothesis, and holds also when blocks are dropped.

`TaskProcesser_proof`. `TextInv` says how far `process` has come: the texts before `part`
are as they shall be shown, those after it as they were fetched, and of the text at work,
the buffer and what follows the append position, up to the matcher's, are together the
text with everything up to there replaced (`Reads`). `Matches` looks on from the matcher's
position and `Begins` at all that comes before; they agree because in front of the matcher
is the beginning of the text or a `}`, which no opening before it reaches across (`Clear`).
So the variable that is found, if it is a known one, is the first in the text from there on
(`KnownMatches`, `FirstMatch`), an unknown one hides no known one, and without a match there
is none left (`NoneKnownStays`); all that is jumped over stays as it is (`ReadsOn`), and a
variable is three pieces, of which the first shows its value and the others nothing
(`ReadsMatch`). What is left is that the
replaced text, when its `\\${` is made `${`, is what `Shown` says piece by piece
(`ReplacedIsShown`): backslashes before a variable have to be the same ones before and
after the replacement, also when the flag or another variable stands next to them
(`BackslashesStay`, `EscapesStay`). `FlattenSeq` and `FoldLeft` are recursive functions;
that such a function exists and what it is are proved by an induction over the
numbers 0..n written as a fact about a set (`NumbersFrom0`), because the library's induction theorems
cannot be instantiated. `TextsAreShown` is about flags `appendReplacement` takes as
they are (`Literal`), as `PartsAreShown` says; `OnlyFlagsFail` shows that with such a flag
nothing throws.

`PageProperties_proof`. `PageInvariant` proves `Spec => []PageInv`, for any number of
instances and of calls of other scripts: a module belongs to an instance as soon as it is
made, and runs, and ends, only when `initFS` has resolved (`ModuleOK`); what an instance
holds is a module of its own, complete and not over (`RtenvOwned`); a call is resolved, and
the overlay gone, only when a game has run. `HeldModulesAreLive` and `PageIsTruthful`
follow. `RtenvOwned` needs the others: `initFS` may resolve for one module while the
instance holds another, and `Exit` takes the module away from its owner only.

`PageAlone_proof` is about the time before another script uses the engine, with files of
any length, any number of attempts and any failures. `AloneInv` says that nothing has
begun until the page calls `startGame`, and that from then on `GameStarts` holds:

* `Downloading`: there are two downloads, the wasm file and the pack, each counted into a
  status of its own file. That is why the pack is never cut off: a stream is closed early
  only when its status says done, and this one says so only when the pack has come
  (`PackOK`). A retry takes a status nobody refers to (`FreshStatExists` counts them).
* `OneCall`, `OneModule`: there is one call and one module, so the module the page holds
  is the one its call waited for.
* `BeforeMain`: until the call settles `init` goes on returning its promise, the arguments
  are those `startGame` has put together, and the pack, once kept, is all that is preloaded.
* `AfterMain`: what the game was given when it ran.

`GameRunsWithItsPack` is read off it. `callMain` changes the very arguments the
configuration holds, so `BeforeMain` may not say anything of them once the call has
settled; that is why the theorem needs the call to be the only one.

The bar (`BarInvariant`, `BarTellsTheTruth`, `BarGoesForward`) needs what no property of it
says: each of the two downloads has one status, which has counted exactly what the download
has got (`Counting`), also after a failed attempt, since a download fails before
its first chunk or breaks off and is never tried again; what is reported is at most what
has come (`Reports`); and the one frame that is pending goes on until it has reported
everything (`FramesOK`). `SumOfTwo` shows that the fold over the files is the sum of the two. The theorems
assume `SizesKnown`: `fileSizes` tells the length of both files, and it is not zero. The
export writes the sizes it has measured into `index.html`; without them the total is zero and
the bar says nothing.

`FilesAreFound` (in `PageProperties_proof`) holds on every instance and whatever is called,
as long as no script passes another `executable` to `start` (`ScriptsKeepTheName`). It is
needed: `loadPath` is shared and stays as it was at the first load, while the program's
name is the instance's, so that another name would make the two differ. `NamesInv` says
that the configurations and, from the first load on, `loadPath` have the name of the
export. The lemmas about `LocateFile` go through the endings in the order of the code.

`PageTypeOK` holds for any number of instances and scripts that use the files of the export
(`ScriptsUseTheFiles`: they do not override the names or the sizes, and preload nothing
else; a script that does would only bring other files into the types). Its invariant
`TypesInv` adds to the types that a download that has begun has a status object in
`loadingFiles`, so that the response finds one (`DownloadOK`), that a download for the
file system has a path, and that the configurations go on naming the files. With room for
two downloads `startGame` finds a second one after `init` has taken the first
(`StillRoom`).

Every invariant the runs check is proved. Only model-checked are the liveness properties,
which are outside the prover's reach: `HandlerReturns`, `ClosedIsForgotten`,
`CloseEndsSession`, `StartupEnds`,
`ProcessEnds`, `KeepsPlaying`, `CloseResolves` and `PageAnswersUnlessHung`; and the
properties of the violation runs, which the code breaks.

## 6. Not modelled, and why

* `UserService.registerUser` and the rest of registration: the pattern of the email
  field in `User/DTO/RegisterUserDTO.java:21` contains `{2, 7}` with a space, which
  `java.util.regex` rejects, so validating a registration request fails before the
  controller is reached.
* Login, JWT and the filters: a connection is bound to the same user whatever its token.
* `GlobalExceptionHandler`, `FieldMatch`, `MDCFilter`, `MainController`: stateless.
* `index.audio.position.worklet.js`: one counter per node, posted after every call and set
  back while a parameter is up. The hazard around it, that the position of a node's former
  owner reaches the next one, lies in the engine's pool of nodes, which is only there in
  compiled form.
* `Engine.requestQuit` and `installServiceWorker`: they call the runtime and the browser
  and change nothing of the page's state.
* The compiled engine itself, beyond what its JavaScript shows of it.
* The connections accepted before `DataInitializer` has finished, or after a start that
  found no task files: each model has its own half (`GameServer` starts with users and
  tasks in place), and a session built from rows of two versions while they are edited is
  not modelled.
* Task files whose rows the database refuses (a hint without text passes
  `validateTaskSeed`): `Stop` includes the exception, but not that the same row fails
  again at every start.
* Time: `TaskSession.taskStart`, `TaskAccess.unlockedAt` are written and never read.

## 7. Plan

Done, in this order: the connections and services (`GameBase` to `GameServer`), their
properties, `GameProtocol` and the refinement, `GameServer_proof`; the startup,
`TaskSeeding`, `DataInitializer` and its proof; `TaskProcesser`; the audio driver,
`AudioStream`, the refinement and its proof; the page, from `EngineConfig` to `GamePage`;
then the proofs of the state diagram, of what holds for users who do not overlap, and
of the refinement; the proofs about the page; last those of the microphone, the progress
bar, the names and types of the page, and the texts.

What could be added:

1. Startup composed with connections: a connection before the first user exists, and a
   session started while rows are edited.
2. The parts of the liveness arguments that are safety: that every step of a handler brings
   it closer to its end, as an action property with a measure.
