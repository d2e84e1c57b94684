# Tupi (Talkeando): verification

TLA+ modules for the parts of Tupi in which state is shared between processes
that fail, reorder and race: who is in which voice room, what every client shows
of it, who is online, how a client gets its connection back, how one client
enters and leaves a call, what becomes of a message from the send to every window,
and which files the database's rows name. TLC checks them on small instances; TLAPS
proves most of their invariants and action properties, and that the chat implements
its abstract log, for every instance.

    tlc -workers 2 -config MCVoiceRegistry.cfg MCVoiceRegistry   # one run
    tlapm VoiceRegistryLemmas.tla                                # the proofs
    tlapm VoiceRegistryProofs.tla
    tlapm VoiceControlPlaneProofs.tla
    tlapm VoiceSyncProofs.tla
    tlapm ConnectionProofs.tla
    tlapm CallSessionProofs.tla
    tlapm ChatProofs.tla
    tlapm MediaStoreProofs.tla

Contents: 1 the system, 2 the modules, 3 the runs and what they show, 4 bounds,
5 fairness, 6 histories and excuses, 7 proofs, 8 what the models found,
9 what is not modelled, 10 plan.

## 1. The system

A Rust server (`server/`), a Windows client made of a native host
(`client/native/Talkeando.Client`, C#) and a web UI inside it (`client/ui`,
TypeScript), a LiveKit SFU that carries the media, PostgreSQL, and a music bot
(`music-bot/`). The UI talks to the host over WebView2 messages, the host to the
server over one WebSocket and HTTP, the UI to LiveKit directly, and LiveKit to
the server over webhooks and an HTTP API.

    LiveKit --webhooks--> server ==registry==> WebSocket --> host --IPC--> UI store
       ^  \--ListRooms/ListParticipants (reconcile)--^                        |
       |                                                                     |
       +----------------- media, participant sessions ----------- call session

| Component | State it keeps | Operations | Interacts with |
|---|---|---|---|
| Voice registry (`ws/voice_registry.rs`) | rooms: version, members (session SID or provisional clock, audio state), tracks | webhooks, reconcile, prune, hints, audio state, music row, expiry, close | everything on the server that speaks of voice, under one lock |
| Control plane (`routes/livekit.rs`, `main.rs`, `state.rs`, `livekit.rs`, parts of `ws/handler.rs`) | dedupe ring, scheduled reconciles, loop, lists in flight | webhook handler, reconcile loop, sweeps started by snapshot requests, kick, move, socket loss | LiveKit, the registry |
| Realtime sockets (`ws/hub.rs`, `ws/handler.rs`) | connections, their queues, the change being published, the snapshot being built | versioned broadcast, snapshots, rate limit | registry, every client |
| Client voice store (`voiceStore.ts`) | versions and rooms, channels awaiting a snapshot, throttle | apply state, apply delta, request | one socket |
| Presence (`ws/handler.rs`, `state.rs`, `hub.rs`, `db.rs`) | connections, epochs, grace periods, status, activity, open playtime rows | connect, disconnect, presence.set, activity.report, delayed disconnect | observers, database |
| Native socket (`NetworkClient.cs`, `IpcBridge.cs`) | socket, generation, single-flight flag, backoff | connect, disconnect, send, receive, reconnect | UI, server |
| Call session (`callSession.ts`, `rtc.ts`, `audioPipeline.ts`, part of `App.tsx`) | session, request queue, resources, microphone queue, stage | join, leave, room ended, switch microphone, teardown | LiveKit, voice store, UI |
| Screen share (`screenPublisher.ts`, `nativeScreen.ts`, `ScreenCapture.cs`, `WgcCapture.cs`, `AudioCapture.cs`) | share, generation, publications, capture threads | start, stop, switch, teardown | call session, host |
| Spectator (`spectator.ts`, `remoteMedia.ts`) | a second, hidden, receive-only room | watch, stop | LiveKit |
| Music bot (`music-bot/index.js`) | a queue and a player per channel | play, pause, skip, stop | server, LiveKit |
| Chat (`ws/handler.rs`, `link_preview.rs`, `routes/messages.rs`, `main.rs`, `App.tsx`) | messages, attachments, previews; per device the window, sends in progress, timers | create, edit, delete, card, unfurl, cleanup, history, retry, cancel | database, every device, the pages a message links to |
| Media (`discord_import.rs`, `routes/attachments.rs`, `routes/profile.rs`) | rows that name files, the files, the import's ledgers | import from three sources, replace, upload | database, storage, Discord |
| Accounts, communities, invites, channels, updater, rendering | rows in the database, views | request and response | |

What is hard in it, and what makes each part correct:

* **Registry and control plane.** LiveKit decides who is connected, and the
  server learns it late, twice, out of order or not at all. A provisional row is
  a guess a client makes before LiveKit confirms it. Correct means: clients and
  timers never remove what LiveKit confirmed (INV-A1), guesses end (INV-A2), an
  old session never speaks for a new one (INV-B2), spectators are never shown
  (INV-B3), and every anomaly converges without a client's help.
* **Sockets and store.** Changes leave the lock before they are broadcast;
  snapshots are read in two steps with a database call between; sockets die with
  requests on them. Correct means: a loss is detectable (INV-C2), a channel that
  waits for its snapshot gets it, and the client catches up.
* **Presence.** A disconnect is announced a grace period late by a task of its own, in
  several awaits, while the same member connects from elsewhere. Correct means:
  a return cancels it, a departure leaves nothing behind, everyone else agrees.
* **Native socket.** Reconnect loops, the UI's bootstrap, timers that send and
  logouts share one socket. Correct means: an accepted connection is kept, a
  session gets its connection back, a logout ends everything.
* **Call session.** Clicks are faster than LiveKit. Correct means: the last
  request wins, nothing of a session outlives it (INV-D1), a teardown the user
  asked for is silent (INV-C4), the stage shows the call there is.
* **Chat.** A message is committed first and told later, by connections and tasks
  that run side by side; the sender shows it before it exists, times out and sends
  again; the history is read in several queries and travels apart from the events.
  Correct means: one message for a request however often it is sent, a message with
  all its files or not at all, every window in agreement once all is quiet, every
  send confirmed or visibly failed, no file taken from a message that has it.
* **Media.** A file is written before the row that names it and removed after it,
  and the importer may be stopped between any two steps and run again from another
  source. Correct means: no row names a file that is gone, no file stays that
  nothing accounts for, nothing is imported twice, a run that ends is complete.

`PROJECT.json` lists every component with its status, and under `hazards` every
place where this bites, with the properties that would catch it.

## 2. The modules

| Module | Models | Extends |
|---|---|---|
| `VoiceRegistry` | every mutation of `VoiceRegistry` (Rust) as a function from rooms and arguments to rooms and emitted `RoomChange`s | |
| `VoiceStore` | `VoiceStore` (TypeScript) in the same style: the store after, and the requests sent | `VoiceRegistry` |
| `VoiceRegistryMachine` | the registry under every sequence of calls | `VoiceStore` (to replay its changes) |
| `VoiceControlPlane` | LiveKit, webhooks, reconcile loop, sweeps, hints, kicks, restarts around the registry | `VoiceRegistry` |
| `VoiceSync` | one client's store against the registry over one socket | `VoiceStore` |
| `Presence` | one member's presence, and those who watch it | |
| `Reconnect` | the native client's socket | |
| `CallSession` | one client's call | |
| `MessageLog` | what the chat of one channel promises: an abstract log of messages, files and confirmations | |
| `Chat` | one text channel: its tables, handlers, unfurl tasks, cleanup and history, and the windows of several devices; implements `MessageLog` | (`INSTANCE MessageLog`) |
| `MediaStore` | the Discord importer step by step, the uploads of attachments and avatars, the rows and the files | |
| `VoiceRegistryLemmas` | what each operation keeps, writes, removes and tells: lemmas for the machines that use the registry | `VoiceStore` |
| `VoiceRegistryProofs` | theorems about the registry | `VoiceRegistryMachine`, `VoiceRegistryLemmas` |
| `VoiceControlPlaneProofs` | theorems about the control plane | `VoiceControlPlane`, `VoiceRegistryLemmas` |
| `VoiceSyncProofs` | theorems about the client that follows the server | `VoiceSync`, `VoiceRegistryLemmas` |
| `ConnectionProofs` | theorems about the two ends of a realtime connection, `Presence` and `Reconnect`, each apart | `Presence`, `Reconnect` |
| `CallSessionProofs`, `ChatProofs`, `MediaStoreProofs` | theorems about the module each is named for | that module |
| `MC...` | constants of the small instances | |

`VoiceRegistry` and `VoiceStore` are data and functions without variables, so
that the three machines that need them share one translation of the code. A
registry operation returns `[rooms, changes]`: what is stored and what is given
to `publish_room_change`. The code returns a list of changes walked out of hash
maps; here it is a set with at most one change per channel.

How the state corresponds to the code:

* `rooms` is `hub.voice`'s map; a missing channel is a missing entry, and
  `since` is `provisional_since` cut down to "none", "fresh" (younger than
  `PROVISIONAL_TTL`) and "expired". `audio` stands for muted and deafened.
  `source` tells the bot's synthetic music row from the rest.
* `VoiceControlPlane`: `live` is LiveKit; `net` the webhooks sent, with the
  deliveries each has left (0: lost; `Redeliver` adds one); `task` the two places that
  wait for LiveKit, the loop's and a snapshot request's, each holding the lists
  it read earlier; `pending` is `pending_reconcile`, `seen` the dedupe ring,
  `kicks` the spawned `RemoveParticipant` calls. A full sweep reads the room
  list, then each room at its own time (`AnswerList`), then applies them.
  Versions are erased: `VoiceSync` is about them.
* `VoiceSync`: `outbox` holds changes that were made under the lock and not yet
  broadcast; `task` the snapshot being built, between `active_channel_ids` and
  the contents; `down` and `up` the socket. `cache` is the member cache, cut down to
  whether this client's user is in it, and an entry of `outbox` carries what its task
  read of the table before it enters the cache.
* `Presence`: `task[k]` is `handle_socket` of one connection and `delayed[k]`
  the task its end spawned, each at an await. An observer registers, reads its
  snapshot and shows it in three steps.
* `Reconnect`: `at[t]` is the await at which a reconnect loop or the UI's handler
  stands; "dial", "hello" and "tell" hold `_webSocketGate`. `link` is the
  server's end.
* `CallSession`: `queue` and `task` are the promise chain of `callSession.ts`,
  `mic` that of `audioPipeline.ts`, `session.resources` the disposers in order
  of registration, `stage` and `shown` the store's session and App's `call`.
* `Chat`: `handler[d]` is what the handler of a device's frame has committed and
  has yet to tell; a connection's frames are handled one at a time, and a handler
  whose connection is gone goes on among the `orphans`. `unfurls` are the spawned
  tasks, `loads` the pages of history between their queries. `view`, `status` and
  `timer` are `messages`, the optimistic entries and `pendingTimers` of `App.tsx`,
  for the channel while it is open and for its cache while it is not.
  `cleanup` is the hourly task between its scan and each deletion.
* `MediaStore`: `job` is the importer at one of its awaits; `Steps` gives the order
  of the steps in each of the three loops, which share their actions. A file is the
  number of its writing, as names are random UUIDs; only an uploaded avatar is
  written in place. `Fail` is the unique index on `client_req_id`. What of the
  messages a run's source has is chosen anew for each run (`Portions`): an archive
  holds what its user looked at, and the JSON has two channels the live import has not.

`Chat` implements `MessageLog` under a mapping that drops who sent a message and
keeps `owner` and `status` as they are. Telling, previews, pages, sockets and
timers are stutters; an insertion that conflicts with an earlier one is a stutter
too, which is the point of the request id. `MessageLog` has no network: what it
allows is what a user of a perfect connection could see, plus giving up.

An action is a handler up to its next await (or, in C# and Rust, up to the next
lock whose release lets another task in). `PROJECT.json` maps each definition to
its lines. A definition whose comment starts with "Mutant:" is a version with a
plausible bug; it is used by no action and is there so that each property can be
shown to notice it.

## 3. The runs

| Run | Module, cfg | Checks | Distinct states |
|---|---|---|---|
| `registry` | `MCVoiceRegistry` | 3 invariants, 4 action properties of the registry | 85 000 |
| `control` | `MCVoiceControlPlane` | live rows survive, convergence on LiveKit, provisional rows resolve | 342 000 |
| `sync` | `MCVoiceSync` | losses are detectable, snapshots come, the client catches up | 478 000 |
| `presence` | `MCPresence` | a comeback cancels, a departure cleans up, the others agree | 290 000 |
| `reconnect` | `MCReconnect` | an accepted socket is kept, the client reconnects, a logout ends it | 377 000 |
| `call_session` | `MCCallSession` | nothing outlives a session, the last request wins, no request hangs | 74 000 |
| `chat` | `MCChat` | `Chat` implements `MessageLog`, windows agree, previews follow, files stay, all comes to rest | 368 000 |
| `media_store` | `MCMediaStore` | rows and files match, nothing is imported twice, finished runs are whole | 1 933 000 |
| `sync_reopened` | `MCVoiceSyncReopened.cfg` | *violated*: every loss is detectable | |
| `chat_reconnect` | `MCChatReconnect.cfg` | *violated*: a device catches up on what it missed | |
| `chat_dropped` | `MCChatDropped.cfg` | *violated*: a failed message stays in its sender's window | |
| `import_rerun` | `MCMediaStoreRerun.cfg` | *violated*: the import can be run again | |

What the passing runs establish, property by property:

* **registry.** `DeltasReplayTheRooms`: applying what an operation emits to the
  rows a client holds gives the rows the server holds, through exclusive joins,
  cascades and closings; the one thing no change tells is the music row of a room
  that closes, which the property names. `ClientsNeverEvictConfirmed`,
  `JoinIsExclusive` and `ReconcileConverges` are the contracts of the operations
  over every reachable registry; `ProvisionalHasClock` and `TracksHaveMembers` are
  what the rows always satisfy.
* **control.** `LiveRowsSurvive` names every step that may take the row of a
  connected session, or give it another session (`Displaces`): a list in which the
  session is not, a joined-webhook of its user's *other* session that the dedupe ring
  does not know, and the server's end. No other step does: no left-webhook however
  late, no repetition the ring knows, no webhook of another user, no list that
  shows the session, no hint, expiry, kick or lost socket. The second exception is real: a
  join of an older session, late or repeated, takes the row (section 8), and the
  property does not deny it. Once sessions stop coming and going, the registry
  settles on LiveKit's rooms, members, sessions, tracks and mute flags, though
  webhooks are lost, a call fails or the server restarts; and every provisional
  row is confirmed or goes.
* **sync.** `LossIsDetectableWhileOpen`: same version, same room, as long as no
  room closed under the socket; a change that was told nobody, or not to this member,
  shows as a gap at the next one. `AwaitingEnds` and `CatchesUp` are its liveness.
  `CatchesUp` also needs the registration to invalidate the member cache.
* **presence.** `ComebackCancels` uses a history on the delayed task: a task that
  was overtaken by a connection before it looked at the epoch never acts.
  `GoesOffline` relates status, activity, ledger and what the others show.
* **reconnect.** `LiveSocketIsKept` is the single-flight promise as far as it
  is kept: several loops may run, yet none replaces an accepted socket.
* **call_session.** `NothingOutlives` relates five owners (room, microphone,
  monitor, store, queue). `LatestRequestWins` and `ConnectedIsShown` relate the
  settled state to the user's last click.
* **chat.** `ImplementsLog` is the refinement: through drops, timeouts and retries a
  request adds one message, which takes all of its files or is not there, and the
  sender sees confirmed only what is stored. `AgreesWhenQuiet` compares every
  window with the tables when nothing is under way; `missed` says when it may not
  (section 6). `PreviewFollowsContent` is about the unfurl tasks, `AttachedIsOnDisk`
  about the cleanup, and `ComesToRest` says that every frame is answered, every
  change told and no message shown as being sent for ever. It does not say that the
  user learns of a failure: a page of history drops the entry (`chat_dropped`), and one
  whose timer fired while another channel was shown stays pending until a page comes.
* **media_store.** `DiskMatchesRows` holds in every state, in the middle of any step,
  after any interruption: a row's file is there, and a file nobody names is in
  somebody's hands or in `torn`. `AttachmentsOnce` and `RunsAreWhole` speak of runs
  from different sources one after the other; `RunsAreWhole` is about what the
  run's source has, which may be a part of the messages, and also says that one
  kind of interruption, and no other, makes a later run meet the unique index.
  That is the only error of a run with a state of its own: every other query or
  request that fails ends the command too, which is an interruption (`Interrupt`).
  `AvatarAsDescribed` is about two uploads of one avatar.

## 4. Bounds

Versions (`MaxVersion`) bound the registry's machine: one channel runs through
five accepted changes, the other, there to move from and to, through two. `VIEW
RoomsOnly` leaves the record of the last call out of a state's identity; action
properties are still evaluated on every step. Two users, one of them with two
sessions, one track and two audio states give every combination of guess,
confirmation, reconnect and owner change of a row.

The other machines take a **budget**: a record of how many of each rare event a
behaviour may still see, and which channels and sessions are in play. `Init`
chooses one of the budgets in `Budgets`, and the run explores everything within
each. So a run is the union of several focused explorations instead of one
product of all of them. The events themselves are free: they may come at any
point, in any order with the rest.

| Instance | Budgets |
|---|---|
| `MCVoiceControlPlane` | *Reconnecting*: a user's second session, each webhook lost or delivered, one of them again. *Hinting*: two channels, two hints, no webhook at all. *Commanding*: a kick or a move beside a hint. *Spectating*: a hidden session and a sweep beside the loop's. *Late*: a webhook that comes when LiveKit has moved on. *Unlucky*, *Restarted*: a hint and a failed LiveKit call, or a restart. *Muting*, *Publishing*: a track that is published and muted, unmuted or unpublished. |
| `MCVoiceSync` | *Flaky*, *Dying*: a lost socket, a restart. *TwoRooms*, *ComeAndGo*: two channels behind at once; members that come and go. *Reopening*, *Racing*, *Refused*: a room that closes, a delta ahead of a snapshot, a refused request, each with a second socket after it. *Arriving*: the user registers while changes are published. *Failing*: a lookup fails, then the socket. |
| `MCPresence` | *Flapping*: three sockets. *Devices*: two devices that set the status and report. *Arriving*: an observer in the middle. *Dying*: a restart. |
| `MCReconnect` | *Dropping*, *Away*, *Rejecting*, *Reloading*, *LoggingOut*: what their names say, with up to three loops and up to two visits of the UI. |
| `MCCallSession` | *Dropped*, *Failing*: four requests with two ended rooms or two failures. *Switching*: microphone switches under way with one of each. |
| `MCChat` | Two members, one of them with two devices, two requests, a file, two links. *Retrying*, *Resending*: a drop and a retry, with a file and without. *Editing*, *Deleting*: two devices change one message. *Visiting*, *Missing*: a window leaves the channel and returns. *Revisiting*: it does so twice, and two pages cross. *Failing*, *Refused*, *Dying*: a database failure, a restart. *Cleaning*: the cleanup during a send. *Talking*: two members and the bot. Of its own run, *Dropping*: a lost socket and a visit. |
| `MCMediaStore` | A message with two attachments, two embeds and a preview image, and a plain one. *Again*: every pair of runs, one interruption. *Thrice*: three runs, two interruptions. *Beside*: a run that fails, with an upload beside it. *Faces*: two uploads of an avatar. In each of them a source has both messages or the first (`Parts`). |

The dedupe ring has length 1 (`SEEN_EVENTS_CAP` is 512): it then forgets at
once, and a redelivery is usually applied again, which is the case that matters.
`FarAttempt = 2` tells the first reconnect delay from later ones. Events that are
never needed twice have a budget of one; two is used where the code's guard
compares two of them (two drops, two failures, two logouts, two requests).
Every action of every passing run's next-state relation is taken, and each
property is broken by a mutant of the code in the run that checks it.

## 5. Fairness

* `VoiceControlPlane`: the loop's own steps, the sweep's timer, and the passing
  of `PROVISIONAL_TTL` are weakly fair; webhooks, hints, kicks and snapshot
  requests are not. That is what the target architecture promises ("Nenhum
  caminho de convergencia depende do cliente ter enviado algo"). The loop's calls
  to LiveKit are assumed to be answered, since the HTTP client has no timeout:
  without `WF_vars(Answer("loop"))` both liveness properties fail at once. This
  is an assumption about LiveKit, not something the code ensures.
* `VoiceSync`: server tasks and client timers run, queued messages arrive on a
  live socket, and the client reconnects. Changes are never owed.
* `Presence`: every task that has started goes on; sockets are never owed.
* `Reconnect`: tasks run, delays end, the server closes a socket without a
  hello. `Recover` is not fair: the property speaks of behaviours in which the
  server stays up from some point on.
* `CallSession`: the queues advance and whatever is awaited answers: credentials
  have a timeout of 10 s, LiveKit has its own, the device is there or not. Which
  answer comes is not fair.
* `Chat`: the handlers, unfurl tasks and event loops go on, a page that was asked
  for comes, timers fire. Users act and sockets return only if they like;
  `chat_reconnect` puts the return into the property.
* `MediaStore` has no liveness property: the importer is a command that may stop.

Two timing assumptions are guards instead. In `Presence`, `Quick`: taking two
locks in a row is faster than `WS_OFFLINE_GRACE_SECONDS`. In `Reconnect`, a delay or
a dial (`Wake`, `Answered`) is longer than the UI's reaction to "connected".

## 6. Histories and excuses

Some variables only record what happened, so that a property can say exactly
where the code stops keeping it. They are listed because a reader should know
what each liveness property does *not* promise.

* `VoiceSync.spoiled`. "closing": a room closed and its version with it, which no
  message tells a v2 client. "refusal": the limiter answered a snapshot request
  with an error, or its visibility query failed and it was not answered, and the
  client asks no second time, so its channel stays deaf until the socket is replaced.
  "untold": a lookup failed and a change was told nobody. "refill": members read before
  a registration entered the cache after its invalidation, so the new member is not
  told until the entry expires; kept across a reconnect while the entry is there.
  "overtake": a delta was queued ahead of a
  snapshot read before it, and the waiting client dropped it. The others are
  cleared by the next socket, and the runs include that socket.
* `Presence.stale`. "grace": an observer's snapshot was read in the grace period.
  "overtaken": a broadcast came between an observer's reading and its sending.
  "late": a connection came or went while a disconnect's task, past its checks,
  was carrying the absence out.
* `Reconnect.excuse`. "abandoned": a loop that had connected reset the
  single-flight flag on its way out and took a newer failure's flag with it, or
  the socket broke before its receive loop began. "unauthenticated": a socket was
  opened, found no session and was left without a receive loop. "overtaken": a
  failed attempt said "reconnecting" over an attempt that had connected. "visit":
  the UI's own attempt failed, which nothing retries.
* `Chat.missed`. "offline": something was told, or queued, while the device's socket
  was down. "overtaken": an event was told that does not say what is stored, with no
  later change of its message under way to correct it, or a creation was told after
  its message's preview (a retry that resolves to a deleted row brings the message back on its user's
  devices). "untold": the lookup of the recipients
  failed. "away": the channel was left, and the timers with it. "stale": a page of
  history was shown that something had crossed, another page of the same window
  among it. A page that nothing crosses clears them all; one that something crosses
  is `dirty` and clears none. `Chat.excused` holds the messages whose preview is not
  what their content calls for because a fetch, a store or a removal failed, whose
  lookup was lost, or ran beside another of the same message; and those whose edit
  started none. The code tells nobody of such a failure and does not try again.
* `MediaStore.torn`. What an interruption or failure left half done: a file that no
  row names (an import that is run again leaves the earlier avatars and preview
  images behind as well), an attachment whose row is in and whose ledger entry is
  not, a message in the same state. `avatar.crossed`: two uploads overlapped or one
  failed, until the next.

## 7. Proofs

Every theorem holds for every value of the constants that the module's assumption
allows, and every budget. Each rests on one inductive invariant per module, which was
checked by TLC on the module's instances before it was proved; of `SyncInv`, which
quantifies over histories, the parts without one.

| Module | Theorem | States | From |
|---|---|---|---|
| `VoiceRegistryProofs` | `RegistryType` | `[]TypeOK` | `Good` |
| | `ExpiryOnlyTakesProvisional` | `[]ProvisionalHasClock` | `Good` |
| | `NoOrphanTracks` | `[]TracksHaveMembers` | `Good` |
| | `NoClientEviction` | `ClientsNeverEvictConfirmed` (INV-A1) | `Good` |
| | `JoinsAreExclusive` | `JoinIsExclusive` | the operation's shape |
| | `ChangesTellAll` | `DeltasReplayTheRooms` | `ToldInv` |
| | `ReconcileIsExact` | `ReconcileConverges` | `ToldInv` |
| `VoiceControlPlaneProofs` | `PlaneType` | `[]TypeOK` | `PlaneInv` |
| | `ConnectedRowsSurvive` | `LiveRowsSurvive` | `PlaneInv` |
| `VoiceSyncProofs` | `SyncType` | `[]TypeOK` | `SyncInv` |
| | `LossesShow` | `[]LossIsDetectableWhileOpen` (INV-C2) | `SyncInv` |
| `ConnectionProofs` | `PresenceType` | `[]TypeOK` | `EpochInv` |
| | `OvertakenTaskReturns` | `[]ComebackCancels` | `EpochInv` |
| | `ReconnectType` | `[]SocketTypeOK`, the gate's mutual exclusion in it | `GateInv` |
| | `AttemptsKeepLiveSocket` | `LiveSocketIsKept` | `GateInv` |
| `CallSessionProofs` | `CallType` | `[]TypeOK` | `CallInv` |
| | `CallLeavesNothing` | `[]NothingOutlives` (INV-D1) | `CallInv` |
| | `LastRequestDecides` | `[]LatestRequestWins` | `CallInv` |
| | `CallIsOnStage` | `[]ConnectedIsShown` | `CallInv` |
| | `AskedEndsAreQuiet` | `LeavingIsQuiet` (INV-C4) | `CallInv` |
| `ChatProofs` | `FilesStay` | `[]AttachedIsOnDisk` | `FilesAccounted` |
| | `ChatType` | `[]TypeOK` | `ChatInv` |
| | `ChatImplementsLog` | `ImplementsLog`: the refinement of `MessageLog` | `ChatInv` |
| | `RequestsPostOnce` | one message for a request, with all its files; confirmed only what is stored | `LogNext`, kept by the refinement |
| | `PreviewsFollow` | `[]PreviewFollowsContent` | `PreviewInv` |
| | `WindowsAgree` | `[]AgreesWhenQuiet` | `WindowInv` |
| `MediaStoreProofs` | `MediaType` | `[]TypeOK` | `Typed` |
| | `NoRowWithoutItsFile` | `[]DiskMatchesRows` | `FilesInv` |
| | `ImportedOnce` | `[]AttachmentsOnce` | `LedgerInv` |
| | `FinishedRunsAreWhole` | `[]RunsAreWhole` | `RunInv` |
| | `AvatarIsDescribed` | `[]AvatarAsDescribed` | `AvatarInv` |

**Assumptions.** Each module names its own. `RegistryAssumption` and
`MachineAssumption`: the bot is a user, "no SID" and the music row's key are not SIDs
of LiveKit's, the neutral audio state is one, a session has one user and a track one
session. `SyncAssumption`: a session has one user, and a budget is a record of numbers
and sets. `PresenceAssumption`: finitely many connections; the epoch is counted by
them. `CallAssumption`, `MediaStoreAssumption`, `ChatAssumption`: the constant that
stands for "none" is none of the things it stands for the absence of (in chat, neither a request nor a
message's number; nor is "removed"), and a budget is a record of numbers. No assumption says what the environment does: webhooks,
answers, drops and interruptions are steps.

**Registry.** None of the three invariants is inductive alone: `TracksHaveMembers`
needs the types to know what a cascade removes, and the clock of a row needs the
row's shape. `Good(rooms)` is their conjunction stated room by room: the members are
a map into `GoodRows` (no SID exactly while a clock runs) and the tracks a map into
`GoodTracks(DOMAIN participants)`. Every operation does one of three things: it writes
one room (`Accept`), removes members together with what they own (`Remove`), or drops
rooms (`Without`); `VoiceRegistryLemmas` has a lemma for each, then one per operation,
then `StepGood` by the disjuncts of `Next`. `ReconcileRoom` is the long one: a track
survives only if its owner is not among the absentees.

`NoClientEviction` uses `Good` where it is needed: the expiry tick takes rows by their
clock, and only the invariant says that those have no session. `ChangesTellAll` is
about the change as a message: `Tells(rs, rs2, ch)` says that the members and tracks
of a room after the operation are what the store's merge makes of those before, upserts
over removals. It is shown for one accepted change (`ToldOnce`), for a removal with its
cascade, and for the exclusive join, whose removals and whose join fall in different
rooms. It needs one fact more than `Good`, `MusicInPlace`: a room's music row lies
under the music key, which is how a cascade that goes by owner can miss it.
`ReconcileIsExact` needs the same fact, as the music row alone survives a list that
does not name it.

**Control plane.** `LiveRowsSurvive` says that the row of a session that LiveKit has
connected is displaced only by a list without it, an unknown join of its user's other
session or a restart. The
hard step is the webhook `participant_left`: the registry compares SIDs, so that what
makes a late one harmless is outside it. `PlaneInv` says what: `Announced`, that some
webhook told of every connected session, so that `Connect` never uses a SID again,
`Over`, that a session said to have left a room is not in it, and `Placed`, that a
session is in no room but the one its join told of, so that the exclusive join of a
session's own webhook, however often it comes, takes none of its rows. With
`Good(rooms)` and the types of everything in flight it is inductive. The operations
are shown to keep a row apart from the plane (`JoinedLeavesOthers`, `ListKeepsShown`,
`SweepKeepsShown`). `Reconciled`, which
applies the rooms of a sweep, is written room by room and not as a fold: what a fold
computes could not be proved.

**Sync.** `LossIsDetectableWhileOpen` compares the store with the rooms when the versions
are equal. It is not inductive: it says nothing of the changes and snapshots on
their way, nor of what the older versions held that these lead from. `Remembered` says
that some history `H` exists, `H[c][n]` being what channel `c` had on the wire at version
`n`, with which everything agrees (`Agrees`): the rooms at their versions; each
change in the outbox or on the socket, which turns the entry before into the entry
after (`Leads`), wherever in the order it comes; each snapshot on the socket, and the
store once a full one came through (`Fits`). A call of the registry extends the
history by one entry per channel it changed (`HistoryGrows`), for which two facts about
every operation are needed: it tells what it did (`Tells`, of
`VoiceRegistryLemmas`), and it counts the version up by one exactly then (`Counts`). A
version that starts again at zero has no place in a history, so a closing room
ends it and is excused (`spoiled`, the finding `sync_reopened`); a new socket or a
restarted server finds nothing on its way and may start another (`HistoryStarts`).
What is compared is what goes over the wire: the age of a provisional row
does not, so that a replay must be shown not to depend on it (`ReplayOnWire`).

**Presence.** The delayed task is trusted with an epoch: `Dated` says that an epoch
remembered is at most the present one and older once another connection has
advanced it, and that only a task that was not overtaken is past the check. `TypeOK`
bounds the epoch by twice the connections, which needs `Counted`: each advances it
once when it arrives and once when it ends.

**Reconnect.** `Alone`: at most one task stands at an await that holds
`_webSocketGate`, and the socket dials exactly while one of them does. The rest follows.
Nothing is assumed of the number of loops. `LoggedOut` is the one addition: the handler that is about to disconnect has
given up the session, so that nothing it closes was to be kept.

**Call session.** `CallInv` is a case split over the place of the queue's operation.
At each await, what has been acquired is registered for disposal or its disposer still
waits (`Free`, `InCall`, `Joining`, `Starting`, `Disposers`), the microphone's own queue
included, whose disposal stands behind the switches. `Requested`: the session is in
the channel asked for last unless something in the queue overrules it. `Shown` says
the same of the stage, and `EndsAsked` that a leave is ahead of the end it caused.

**Chat.** `FilesAccounted` says that a file whose row is there is on disk, attached or not,
and that the row of a file about to be removed is gone: the conditional delete comes
first, and only a row that is there can be attached. For the refinement, most actions
are stutters; `CreateNew` is `Post`, and the unique request id is what makes a second
insertion one. A confirmation is the subtle step: the window believes a "created"
event, so `ChatInv` says that whatever is on its way, in a handler, among the orphans,
on a socket or in a page, is about rows that are there, with the request they were
stored with. Rows are only added (`Growth`), so it stays true.

`PreviewFollowsContent` speaks of a message at rest; `PreviewInv` says what holds on
the way. Either the content the message has now is in somebody's hands and yet to be
told, which starts a lookup, or every lookup under way is of that content and, once
there is none, the preview is its link. `excused` leaves out the messages the code
does not promise this of: a fetch, a store or a removal that failed and left a
preview other than the content's, a lookup that lost its process or raced another. The second
conjunct, `Cards`, is needed because a card is never looked up: no edit turns a message
into one, so that its preview is none from the start and stays so.

`RequestsPostOnce` is proved of the abstract log's own steps and holds of the chat
because each of its steps is one of those: what a reader wants of the refinement, in
three sentences about the tables.

`AgreesWhenQuiet` speaks of the end, when nothing is under way; `WindowInv` says, for
every device that missed nothing and every message, why it will come true. The
message's entry in the window has a content, a link and a presence, and each is right
now, or will be: the last event on the connection that bears on it is right (`Ends`: an
event of the mending kind, `Mends`, `Relinks` or `Announces`, and behind it only such
as leave it right, `Only`), or one that makes it right is stored and yet to be told, by a handler, an
orphan or an unfurl task. A page of history under way that can be relied on (`Clean`)
will likewise show each message as it is, or something is to come that mends the page
(`PageFits`), and what waits on the connection will not spoil it. The excuses are exactly the steps that break this. The proof of a step
separates what it does to the store from what it does to a window: `ContentSteady` and
its companions say that nothing less is known of a message than before, and what a
connection gains at its end or loses at its front is a handful of lemmas about
`Only` and `Ends`. TLC checked `WindowInv` before it was proved, on larger budgets too
(two visits beside an edit, two edits beside a retry); that is how an error of the
model came to light (section 8, pages that cross).

**Media.** `DiskMatchesRows` holds in the middle of every step because of what is in
hand: `InHand` and `Uploaded` say that the file just written is on disk and in no row
but the one whose ledger entry is next, `Listed` that the paths a replacement collected
are still its rows' and, after the delete, nobody's, and `Distinct` that no
file is in two places. `Ledgered` and `Entered` carry `AttachmentsOnce` across runs: an attachment
without its ledger entry is the one at work or in `torn`. `RunInv` carries
`RunsAreWhole`: a row is in the ledger, in `torn`, or about to be entered (`Claimed`);
an entry of the ledger of files names a file of that source's own attachment
(`Named`); the messages a run has put behind it are whole (`Finished`); and `Begun`
says, from the position in the list of steps, what has been made of the message at
work. It is one statement for the three modes, as each is a list of the same steps.

**Only model-checked**, and why:

* Liveness and everything under fairness: `Converges`, `ProvisionalsResolve`,
  `AwaitingEnds`, `CatchesUp`, `GoesOffline`, `StaysShown`, `Reconnects`, `LogoutEnds`,
  `RequestsSettle`, `ComesToRest`.
* What a recursive definition or a fold computes for all inputs.

Every safety invariant and every action property that a passing run checks is proved.

## 8. What the models found

Four runs end in a counterexample; each contradicts a sentence of the
repository, quoted in `PROJECT.json` under `findings`.

1. `sync_reopened`: a room's version starts from 0 when it opens again; a v2
   client ignores the new deltas as redeliveries.
2. `chat_reconnect`: on a reconnect the window asks for the voice rooms and not for
   the history of the open channel, as `docs/SDD/specs/chat.md` says it does; what
   was told meanwhile shows only after the channel is chosen again.
3. `chat_dropped`: a page of history replaces what a window shows, a failed message
   included, although the server never stored it; `docs/SDD/specs/chat.md` says that
   pending and failed messages remain as they are and are never silently dropped.
4. `import_rerun`: the live import writes a message's row and its ledger entry
   without a transaction; interrupted in between, no later run gets past that
   message, and a replacement does not remove it.

Observed while modelling, in the models where they fit, without a run of their
own:

* A joined-webhook is believed whatever session it names
  (`voice_registry.rs:357-367`): one of an older session that comes late, or again
  after the ring forgot it, puts the older SID back into the row of a connected one, and
  a reconcile is needed to mend it. INV-B2 (`tupi-v2-refactor/04-invariants.md:69-73`) asks that
  such an event change nothing; the registry keeps that for left-webhooks only.
* The removal of a preview that is no longer wanted may fail
  (`link_preview.rs:109-113`): the old one stays on a message without a link, and
  neither a log line nor a broadcast says so.
* A member who moves while a sweep reads the rooms one by one is listed in both,
  and `reconcile_room`, which does not look at other rooms, stores both until the
  next sweep (`handler.rs:1665`), though `voice_registry.rs:308` relies on it to
  correct such a member.
* `status_for` says offline during the grace period in which the others still think
  online; whoever connects then is not told of the return (`Presence.stale`,
  "grace").
* The backoff is reset by a hello sent, not accepted: a server that rejects
  sessions is asked again every half second (`NetworkClient.cs`).
* A store event after a hang-up puts the call back on stage, where it stays
  (`App.tsx:1912`).
* A reconcile of a room LiveKit does not list prunes a provisional row whose owner
  is still connecting; the joined-webhook brings it back.
* The native activity monitor remembers a report before its send succeeds
  (`ActivityMonitor.cs:143`): one lost with its socket is not sent again.
* The store keeps the rows and versions of the server's previous process until a full
  snapshot comes, and a snapshot of one channel leaves the others as they are
  (`applyState`): when both full snapshots of a socket are lost (the server's own fails,
  the client's request is refused), a version of the new process can match one of the
  old, and a loss behind it does not show. `synced` in `VoiceSync` therefore means a
  snapshot of *all* rooms.
* A change whose community lookup fails is not published (`handler.rs:1252`), and the
  members a task reads before a registration commits can enter the cache after its
  invalidation (`state.rs:108`): the new member misses changes for up to a minute, and
  shows them after the next one, as the versions have a gap (`VoiceSync`).
* An edit whose channel lookup fails after the `UPDATE` is stored, told to nobody and
  not unfurled; an edit or deletion whose `UPDATE` fails is not answered.
* A channel that is left and opened again has two requests for its history, which
  nothing orders (`App.tsx:1990`, `IpcBridge.cs:100`): the answer that comes last stays
  on screen, and when it is the older one, what was told between the two is gone from
  the window until the next load (`Chat.missed`, "stale").
* `docs/SDD/specs/chat.md` lets the owner delete others' messages; the handler takes
  only the author's.
* The archive run after a live import puts the older content back (`Update`).
* Outside the models: deleting a channel looks up its community after the row is gone, so with a cold
  cache the closing of its room is told to nobody; two concurrent `dm.open` may
  create two channels; `login` is limited by a sliding window that is described as
  a fixed one.
* `hint_joining` with a SID inserts or confirms a row as confirmed
  (`voice_registry.rs:726-737`), though the module's header leaves confirmation
  to LiveKit; the hint handler's own checks are what limits it.
* `reconcile_room` of a channel without a room leaves an empty one
  (`voice_registry.rs:570`); snapshots leave it out, the next sweep prunes it.
* Reconcile does not refresh `owner_sid` of a track it knows (`:665`), and a
  publish that creates its owner's row bumps the version twice in one change.
* `RemoveParticipant` names the identity, so a kick decided against one session
  can end the next (`handler.rs:1376`; `KickLands`).
* The reconcile loop awaits LiveKit without a timeout; while one call hangs,
  provisional rows do not expire (`main.rs:216`).
* Two devices' `presence.set` may be broadcast in the order opposite to the one
  they were stored in.
* `_reconnecting` does not keep loops apart: the UI's attempt resets it while a
  loop sleeps, and shutdown's disconnect keeps the token, so the receive loop
  starts a reconnect.
* `callSession.ts` says that of five fast clicks only the last connects; that
  holds if the first had not started. Its `isCurrent` checks after awaits inside a
  join can never fail, as joins run one at a time.
* A microphone mode changed while the first start is under way is stored and
  applied at the next start only.

## 9. What is not modelled

Request/response over the database (accounts, communities, invites, channels),
which is single statements under unique indexes and foreign keys, rendering,
operating-system calls, observation (logs, metrics), wire encodings and the v1
dialect: `PROJECT.json` gives the reason for
each. Inside the modelled parts: database errors of the
voice handlers, pages of history further back, typing indicators, unread counts,
direct messages, the names and badges of imported authors, the images of rich
embeds, the check of the bot's calls before its music row is set (`MusicRow` may come
at any time, which only adds behaviours), the periods of timers (only their order), channel
visibility, several communities, the muting state of a call, its camera and its
volumes, and the gap of one microtask between unmuting and measuring speech.
LiveKit, the network and PostgreSQL are external: they do what their callers
handle.

## 10. Plan

Done: registry, control plane, sync, presence, reconnect, call session, in that
order (what decides who is in a room first, then how it reaches a screen), the
registry's proofs, then chat with its abstract log, and the media store.

Next modules:

1. **ScreenShare** (`screenPublisher.ts`, `nativeScreen.ts`, the `screen.*`
   handlers of `IpcBridge.cs`, `ScreenCapture.cs`, `AudioCapture.cs`,
   `WgcCapture.cs`). UI: the screen queue, one disposer per share in the call's
   teardown, generations; host: a running flag and a thread per capture, `Stop`
   that joins for at most 800 ms. Properties: a settled share is captured with its
   own generation and target; a settled idle has nothing published and nothing
   running; shares settle; no capture begins before the previous one ended
   (`screenPublisher.ts:4-6`). Hazards known: two captures' joins together can
   exceed the UI's 1 s wait, so that a late "stopped" answers a later stop; a
   thread that outlives its join sees `running` true again after a restart; the
   capture thread calls `_wgc.Stop()` after `Stop` set the field to null; a start
   queued behind a stop reads the session after its await and may publish into the
   next channel.
2. **Spectator** and **remoteMedia** (a second room whose end races a join),
   composed with `CallSession` by the shared LiveKit identity.
3. **MusicBot** (queue, player, reconnect, and the synthetic row it asks for).
4. **Graceful shutdown** (host and UI with a timeout), **activity monitor** (a
   report remembered before it was sent, against `Presence`).

Abstract specifications worth stating: a roster that jumps to LiveKit's state
(`VoiceControlPlane` implements it up to provisional rows, under a mapping that
hides them); one connection that is up or down (`Reconnect`); a call that is
nowhere, entering or in a channel (`CallSession`, with `LatestRequestWins` as its
step relation).

Theorem worth proving next: that `VoiceControlPlane` implements such a roster.
