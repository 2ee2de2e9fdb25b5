# VRCStreamer, a verification project in TLA+

VRCStreamer relays live audio and video from a browser to RTSP players. The
browser client encodes AAC and H.264 and sends frames over one WebSocket; the
Rust server fans every stream out to any number of RTSP listeners. This
directory models the server's concurrent core and its sessions, the client's audio
and video paths and the page around them, checks the models with TLC and proves their main safety
properties with TLAPS. Paths below are relative to the repository's sources; line
numbers are those of the commit modelled.

## Inventory

The server (`server/src`) is one tokio process on a multi-thread runtime. Every
WebSocket publisher is a task, every RTSP connection is a task and, once it
plays, its media is a second task; one more task reloads the blacklist. They
share `AppState` (`main.rs:174`) through atomics, std locks and tokio
broadcast channels. A panic aborts the process (release profile), so lock
poisoning does not occur, and nothing is persisted: a restart is a fresh `Init`.

| part | source | state | operations | what makes it correct |
|---|---|---|---|---|
| channel registry | `main.rs:745-788`, guards in `websocket.rs`, `rtsp.rs`, `limits.rs` | `channels` map, `Channel.streamer`, `Channel.listeners`, three counters | reserve, clean up, admit, give back | counters exact, one publisher per key, nobody on an orphan object, no leaked entry |
| blacklist | `main.rs:485-617`, `websocket.rs:105-176, 239-303` | ID list, `StreamerIpBans`, `blacklist_notify` | four checks per session, record a ban, reload, notify | no stale ban, a caught address stays blocked, no kick lost |
| per-address limits | `limits.rs:10-67, 127-152, 180-276` | `IpLimitTable` | count a request, acquire, release, prune | places exact, table bounded, nobody's place pruned |
| token buckets | `limits.rs:69-125` | three fields per bucket, seven buckets per session | `allow_at` | never more than a burst plus rate times time |
| publisher session | `websocket.rs:232-620` | video configuration, timers, buckets | media frames, control text, idle, notification | channel state matches the session's; leaves on every error path |
| media relay | `rtsp.rs:476-958`, `main.rs:725-743` | broadcast rings, resync epoch, per-track cursor and keyframe gate | send, receive, lag, resync, placeholder | no delta frame without its keyframe, backlog dropped, media stops with the streamer |
| RTSP session | `rtsp.rs:99-424, 1730-1792` | `RtspSession` | OPTIONS, DESCRIBE, SETUP, PLAY, TEARDOWN, timeouts | only legal orders start media, guards released once |
| media time | `websocket.rs:67-88`, `rtsp.rs:1821-1884` | wrap offset, anchor | normalise, map | monotone across the 32-bit wrap, tracks share one anchor |
| wire formats | `media.rs`, `rtsp.rs:979-1705` | none | parse, describe, packetise | byte-level; covered by `tests.rs` |
| configuration, HTTP | `main.rs:245-723, 1056-1304` | none of its own | parse environment, answer | pure |
| client publisher | `client/scripts/streamer.js` | `app.active`, its encoder, its sources, the video streamer | start, stop, restart, swap encoder; add, replace, hide, remove a video | no work of an old call or session reaches a new one; nothing is left behind |
| client video worker | `client/scripts/video-worker.js`, `streamer.js:637-812` | source generation, source buffer, canvas, two pauses, encoder queue | init, source, placeholder, reconfigure, resume, transport pause, audio clock, pace, close | no frame of an old source is drawn; a lost key frame is made up for; calls settle |
| client audio workers | `client/scripts/aac-worker.js`, `audio-worklet.js` | queue | encode, flush | order kept |
| client page | `client/scripts/client.js`, `ui.js` | server selection, link, stream code, encoder select, three locks on the controls | select and connect a server, poll, new link, start, restart, change the encoder | status, link, select and locks agree with the session in whatever order answers come |

How they interact. A publisher request passes origin, password and code checks,
the blacklist, the per-address table, the connection counter, then wins
`Channel.streamer`, then the streamer counter, and only then owns a
`StreamerGuard`, whose `drop` undoes everything in a fixed order. An RTSP
connection takes its per-address place and connection at accept, its server-wide
listener place and its channel place at the first SETUP, and gives them back
when its session value is dropped. The relay reads `streamer`, `video_active`
and `resync_epoch` of a channel without any lock while a publisher writes them.
The blacklist task reaches a running publisher only through `Notify`.

On the client the page, the video worker and the audio worker are event loops that
post messages to one another; every `await` of the page lets any other handler in.
The page's globals (`app`, the selected server, `linkRestartInFlight`,
`sourceRequestInFlight`) are what these handlers share.

The hard parts are listed, line by line, under `hazards` in `PROJECT.json`.

## Modules

| module | models | extends |
|---|---|---|
| `Registry` | channel registry and session lifetime | |
| `Directory` | what the registry promises, abstractly | |
| `RegistryRefinement` | the registry as a Directory | `Registry`, instance of `Directory` |
| `RegistryProofs` | TLAPS proofs about `Registry`, and that it implements `Directory` | `RegistryRefinement` |
| `Blacklist` | blacklist, bans, reload, notification | |
| `IpLimits` | the per-address table | |
| `Relay` | publisher commands, broadcast rings, media tasks | |
| `RelayProofs` | TLAPS proofs about `Relay` | `Relay` |
| `TokenBucket` | a rate limit of a publisher, whose rate may change | |
| `LimitsProofs` | TLAPS proofs about `IpLimits`, `Blacklist` and `TokenBucket` | `IpLimits`, `Blacklist`, instance of `TokenBucket` |
| `MediaTime` | a packet's time from the client's counter to the listener's | |
| `RtspSession` | one RTSP connection's requests and handshake | |
| `ListenerProofs` | TLAPS proofs about `RtspSession` and `MediaTime` | `RtspSession`, instance of `MediaTime` |
| `AudioEncoding` | the client's audio encoder over sessions and swaps | |
| `AudioEncodingProofs` | TLAPS proofs about `AudioEncoding` | `AudioEncoding` |
| `VideoWorker` | the video worker, its handle on the page, the upload's congestion | |
| `VideoWorkerProofs` | TLAPS proofs about `VideoWorker` | `VideoWorker` |
| `VideoSource` | the video source of a session, from capture to the worker's answer | |
| `VideoSourceProofs` | TLAPS proofs about `VideoSource` | `VideoSource` |
| `Page` | server selection, link, session start and restart, encoder select | |
| `PageProofs` | TLAPS proofs about `Page` | `Page` |
| `MCIpLimits`, `MCRelay`, `MCMediaTime` | symmetry sets and values for TLC | |

### Registry

A process is a publisher request or an RTSP connection; `pc` is its place in
the code. One action is one atomic operation or one critical section of the
std `RwLock`, so processes interleave exactly where the code lets them:

- `Lookup` is the read lock and the map lookup of `reserve_channel`. A hit keeps
  the lock (`readers`); a miss drops it, and `FindOrInsert` takes the write lock
  (`writer`) later. `ReserveStreamer` and `ReserveListener` are the closures run
  under whichever lock is held, `Unlock` is the end of the lock's scope.
- `CountStreamer` is the server-wide count with its way back; `Uncount` is the
  listener's way back.
- `DropStreamer`, `UncountStreamer`, `DropListener`, `UncountListener` are the
  guards' `drop`s, split at every atomic operation.
- `SweepLoadStreamer`, `SweepLoadListeners`, `SweepRemove` are `cleanup_channel`:
  two loads without the lock, then the re-check and removal under it.
- `Fresh` stands for the allocator: an address may be reused as soon as no map
  entry and no session refers to it, which is what makes `Arc::ptr_eq` worth
  modelling.

The checks before the connection counter read no registry state; a refused
attempt that changes nothing is no step.

### Blacklist

A session goes through `block_streamer_ip_if_blacklisted` at four sites
(`"ingest"`, `"startup"`, `"notified"`, `"final"`), each a `Check` and, when the
ID is listed, a `Record` with the ID list locked for reading in between. `Reload`
is `replace_stream_blacklist` under both write locks; `NotifyLoad` and `NotifyOne`
are the loop of `notify_blacklisted_streamers` with the load and the
notification apart. `permit` is the one stored permit of tokio's `Notify`.
`caught` is a history variable: the address/ID pairs seen under an ID that has
been listed ever since. One object stands for a key, which Registry's
`ReservedIsMapped` justifies for publishers; `Discard` forgets a permit together
with an unused object.

### IpLimits

`Request` is `allow_http_request`, `Acquire` is `try_acquire_ip` for either kind of
place and `Release` is the guard's `drop`; each is one critical section of the
table's mutex, with the lazy `Prune` and the entry bound inside it as in the
code. An instant is read before the mutex is taken, so an action may use one
that is already old (`Instants`). The lists of guards and of past admissions
are history, for the properties.

### Relay

One channel, the publisher sessions that succeed each other on it and its
listeners' media tasks.

- A publisher's command puts the sequence of its atomic operations in `todo`, and
  `Operate` performs them one at a time: `StartOps`, `LeaveOps` (the guard's
  `drop`) and `ControlOps` are the orders in which the code stores, advances the epoch and
  wakes. `Swap` inserts a wake-up when the video was not active.
- A receiver (`audio_rx`, `video_rx`) holds what it has not read. Overflow makes
  it `Lagged`: everything in it, wake-ups included, is lost.
- `task[l].at` is the place in `rtsp_media_rtp_task`: the epoch (`Top`), the two
  re-subscriptions (`ResyncAudio`, `ResyncVideo`), `DropBacklog`, the two loads of
  `channel_video_state` (`SyncStreamer`, `SyncVideo`), the load of
  `streamer_active` (`Arm`), the select (`TakeAudio`, `TakeVideo`, `Silence`,
  `Report`) and the handlers. No place holds a lock, so publishers interleave
  everywhere.
- `Mapped` is what matters of `RtpMediaTimeline::map`: which session's frame is
  the anchor. The arithmetic is in `MediaTime`.
- `shown`, `gap` and `resynced` are history: whose frame went out last, whether a
  frame was missed since the last keyframe, whether the task has seen an epoch
  change.

### TokenBucket

`Allow` is `allow_at`: refill at the rate of the quality selected now, cap at its
burst, then take or refuse. `SelectQuality` is the control message that changes the
rate, which the video buckets read at every call (`websocket.rs:411-437`). `windows`
is history: for each time of a call, what has been granted since; so a property of
every window is one of every stretch of time.

### MediaTime

One publisher's two tracks on their way to one listener. `Publish` stamps a packet
with a counter that wraps (`Stamp`) and unwraps it as `normalize` does (`Wrapped`,
`Offset`, `Normalized`); `Map` is `RtpMediaTimeline::map`, with the anchor made by the
first packet after a resync, moved at `Reanchor` (`Moved`), and the conversion back to
a narrow counter (`TimestampAt`). The listener's clock (`ClockTime`) starts when its media
task does (`Joined`), so a packet taken before the one at the anchor may have a negative
play time, which the conversion truncates (`Quotient`). Delay is any time a packet stays
in `flight`; `Drop` is a lag or a backlog. `lags` is history: how far from the time it was taken at each
packet since the resync was placed, and how far the timestamp it left with is from that
time. Packets are taken at ticks at which every clock steps (6000 a second with the code's
48 and 90 kHz, which are then rates of 8 and 15), so a packet whose wraps were all seen
is converted without rounding; after a missed wrap both conversions round, as in the code.
Which session's anchor is used belongs to `Relay`.

### RtspSession

An action is one turn of the loop of `handle_rtsp_client`: a request with what its
handler leaves in `RtspSession`, an interleaved packet, the end of the media task, or
the deadline. `Ask` stands for every request that changes nothing, errors included.
`Play` takes the receivers in the code's order, so that a failing PLAY may have taken
the audio's. What a closed connection held is given back in `Registry`.

### AudioEncoding

The page and its encoder workers are event loops joined by ordered message
queues. An action of the page is one event with the promise continuations it
sets off, since no other event can come between them.

- `worker[e]` is one result of `createAacEncoder` together with its worker: the
  page's counters (`pending`, `queue`), what the page has posted (`inbox`), what
  the codec holds (`codec`) and what the worker has posted (`outbox`). `Closed`
  stops the worker and empties its side; its `outbox` may still be delivered.
- `Start`, `Connect` and `Started` are `start` cut at its awaits, `Stop` is every
  reason to end a session that comes from outside the encoder.
- `SwitchMode`, `ReadyTimeout`, `ReceiveReady` and `ReceiveFlushed` are
  `replaceAudioEncoder` and `completeAudioEncoderSwap`; a flush that times out ends
  the session and is a `Stop`.
- `Capture` is `encodeAudioBlock`: a stale block is dropped, one that arrives during
  the flush is buffered, any other goes to the encoder if it has room.
- `Load`, `Consume`, `Output`, `Break` and `Fail` are the worker with the native codec, which
  holds blocks and puts packets out later. The WASM codec's packets come out within
  the encode call, before it is acknowledged, so that codec holds nothing, unless
  the vendored binary delays its output: its flush (`aac-worker.js:364`) only
  drains what is finished and would then lose the last frame, which is not modelled.
  `Break` is a block that cannot be encoded, `Fail` a codec or a script that fails of
  itself at any time once it has loaded.
- Blocks are numbers in the order of capture; `last` and `done` are history.

The property worth its run is `Accounted` with `SentInOrder`: at a swap three holders
of blocks (old encoder, buffer, new encoder) change roles between two messages.

### VideoWorker

The worker runs the page's commands one after the other (`Obey`: `worker.doing` is
idle), but its read loops, its pacing timer and its codec run while a command waits.

- `worker` holds the worker's global variables under their own names where they have
  one; the operators `Scheduled`, `Started`, `Held`, `Arrived`, `Stopped`, `Closed`
  stand for the functions that change them, and a handler composes them.
- A command with an await is cut there: `HandleSource` and `FinishSource`,
  `HandlePlaceholder` and `FinishPlaceholder`, `HandleInit` and `FinishInit`,
  and `HandleReconfigure`, `CheckSupport`, `FinishFlush`.
- A source is the number of the call that brought it. `reader` is the generation in
  use, `loops` the read loops that still run: `Frame`, `EndOfSource` and `ReadFails`
  happen in any of them, and one of an older generation only closes its frame.
- `RunPacing` takes a source frame, the placeholder or the canvas again. Whether a
  frame is due and whether a key frame is due by its interval are free choices, so the
  arithmetic of the clock is left out; `ClockGoesStale` is the grace period of the
  audio clock.
- `page` is the handle of `createVideoWorker` (`streamer.js:717`), `Poll` and
  `ReceivePacket` the transport with its hysteresis reduced to what it decides
  (`congested`), `wire` what the server knows: the quality announced and whether
  it misses a key frame. `Terminate` drops the worker's unread messages. A failure while
  `reconfigure` waits closes the worker, and its answer, which nobody hears, may be
  either of the two (`FinishFlush`).

### VideoSource

The same subject one floor up: the worker is reduced to its promise (it takes
sources and placeholders in order, or fails), and the interleaving is that of
`installVideoSource`, `createVideoStreamer`, `setVideoSourceHidden`,
`removeVideoSource`, the stop timer and `cleanup`.

- `call[k]` is one call of the streamer's `setSource`, at its await for the
  track's constraints (`"constraining"`), for the worker (`"posted"`), or settled
  with its continuation still to run (`"accepted"`, `"rejected"`). It owns a clone of
  the captured track, named `k` in `clones`.
- `request` is `addOrReplaceSource`, one at a time as `sourceRequestInFlight` makes
  it; `Request`, `InstallVideo` and `WorkerReady` are the parts between its
  awaits, `SourceReady` and `SourceRejected` its continuations. The catch of
  `createVideoStreamer` is `Withdraw`, and once the worker has ended (`WorkerClosed`,
  step `"closing"`) that of `installVideoSource` is `GiveUp`.
- A worker that is loading becomes ready or fails (`LoadFails`); one that is ready may
  fail at any time (`WorkerFails`) and need not.
- `worker[w].maker` is the source the callbacks of the worker were made for, which
  is not the one shown after a replacement; `source` is the one its api names.

### Page

The page's handlers cut at their awaits. A capture, an encoder swap and the
sources of a session are single steps here; `VideoSource` and `AudioEncoding` open
them up.

- `lookups` are the calls of `refreshStats` without an answer, each with the
  server it asked; `digests` are the calls of `updateUrl` waiting for the hash, of
  which only the latest may show its link (`newest`). Both answer in any order.
- `attempt` is the start of a session or the addition of a source
  (`sourceRequestInFlight`), `link` the lock of the new-link button, `rest` what
  `restartActiveWithCurrentSources` still has to start.
- `swap` is a change of encoder: `"running"` in its session, `"orphan"` when that
  session is over and the call has not returned.
- The guards on user actions are the enabling conditions of the controls
  (`refreshControls`), so a click happens where the page allows it. The form of the
  custom server is locked when the page next looks at it (`FormLocked`): the model leaves
  it open while a session's first source is being installed.

## Runs

| run | what it shows | bounds |
|---|---|---|
| `registry` | counters, fields, map and sessions agree at each step; refinement of `Directory`; every leaver gets out; unused entries go | 2 publishers, 2 listeners, 1 key, 2 objects, limits 3, 1, 2, 1 so that every refusal happens |
| `blacklist` | ban table and notifications; a running listed session is caught | 2 sessions, 2 IDs, 1 address, room for 1 ban, so a second overflows |
| `ip_limits` | places, the request budget, the entry bound | 3 addresses for a table of 2, one request per window and one place of each kind, windows of 2 over 7 ticks |
| `relay_sessions` | no picture and no clock of one session reaches the next | 2 sessions, 1 listener of both tracks, rings of 2, 2 commands, admissions may be refused |
| `relay_video` | no frame goes out over a gap; picture and silence follow the channel | 1 session with every video command, 1 listener of both tracks, rings of 1, 3 commands |
| `rtsp_session` | tracks apart; what was set up plays; one stream; the handshake ends | 2 streams, channels 0 to 7, 6 requests, a deadline of 2 |
| `audio` | order and conservation of blocks over a swap; back-pressure; no worker left behind; a swap's call returns | 2 sessions, 2 encoders, 3 blocks, room for 2 |
| `video_worker` | no old picture; gaps heal; packets of the announced quality; the timer runs; calls settle | a source and the placeholder, one change of quality, one of congestion, a codec queue and a source buffer of 1 |
| `video_source` | no worker or track left behind; the server is told; a request ends | 3 captures, 2 workers, 4 calls of `setSource` |
| `video_hide` | a counterexample: a hidden video that is shown | 1 capture, 1 worker, 2 calls |
| `page` | status, link, encoder select and the new-link lock agree with the session | 1 listed and 1 typed server, 2 encoder modes, 2 codes, 2 hashes at a time |
| `page_link` | a counterexample: a new link the session does not stream to | as `page`, with 1 mode |

Why the bounds are enough. Every race of `reserve_channel` and `cleanup_channel`
is between two sessions of one key, and every key is under the one lock; three
connections add a third party, and the limits couple all. With two objects a key is
unmapped and mapped anew while a leaver still holds the old object. (With two keys, or
with a third object, liveness takes longer than five minutes.) Two sessions of one ID, one leaving
and one coming, are the worst the notification meets; two IDs under one address fill
and overflow a table of one. The proofs remove these bounds.

Media tasks never write what another task reads, so one listener is all there is
to see. A foreign delta frame needs a frame of each session, a foreign
anchor too, so two commands reach them next to the four wake-ups and two
resyncs that sessions send of themselves; rings of two overflow on these alone. A skipped
frame whose skip is undone needs a keyframe, a stop and a start before the delta
that shows it; a ring of one lags on any two of these. `Relay` assumes
`MAX_AUDIO_BACKLOG_FRAMES` to be at most `CHANNEL_BUFFER` (12 and 128 by default).

Six requests
describe, set up both tracks, change one of them, and play; with eight channels each
preferred channel may be taken, be odd, or be the last, which has no second of its pair.

An encoder, its successor and the buffer between them are all that a swap
involves; three blocks fill and overflow room for two. Two sessions let the messages
of the first arrive in the second: the second encoder is either the first's
successor or the second session's own.

In `video_worker` the placeholder is the second source: a source may give way to
it and it to a source, each while the other's frames are still read. (An instance with
two captured sources has 2.5 million states and satisfies the safety properties; it
is left out for its time.) The page posts no second placeholder before the first was
read, no command while one is unread, and the worker no second packet: each bounds
the length of a queue, not the order in it. A failed call frees the next one,
so three captures with two workers replace a source that replaced one, and make a
worker anew after the first was closed. In `page` two hashes at a time are the
fewest that can overtake one another, and two servers the fewest a late answer can be
wrong about. Two calls of `refreshStats` for the same server and the same reason are
one: after its answer `Poll` may ask again, so every answer may come any number of
times.

Fairness. The runtime polls every ready task, so a session's own steps are
weakly fair. The lock steps of `registry` are strongly fair: std's `RwLock`
queues waiters. Nothing is assumed of clients or the operator. `blacklist`
also assumes that a session returns to its select loop, i.e. that its sends
complete: they have no timeout of their own (`websocket.rs:327`). `relay_video` makes
the operations of a publisher and the turns of a media task weakly fair, and the two
receive branches of the select strongly fair, since `select!` picks at random
among ready branches while a timer may keep interrupting. Timers are not
counted on: a property that held only thanks to the five-second report would
hide a missing wake-up. Refused admissions are left out there; they do hide
one, see the hazards at `rtsp.rs:903`; `relay_sessions` has them. `audio` makes the
delivery of messages and the workers' loading, consuming and output weakly fair, as
event loops are. `video_worker` does the same for the page's deliveries, the worker's
commands and the codec's output. `video_source` does so for the browser's answers, for a
worker that loads (it is ready in the end, or cannot load), for one that is ready and
reads its messages, and for one that was told to close, which ends or is
terminated after a second; that a ready worker fails is not counted on. `rtsp_session` lets time pass and polls a loop that
is past its deadline, and takes the answers' writes as completed. Frames, the audio clock, people and the
client's timers are counted on nowhere. `page` has safety properties only.

### Beside the runs

`TokenBucket` and `MediaTime` are about arithmetic, and their theorems say more than
an instance can; their configurations serve to look at small cases.
`TokenBucket.cfg` has two rates, bursts of two ticks and five ticks.
In `MediaTime.cfg` the rates are two and three, the audio's being the common one as in
the code; counters have eight values, so the audio's wraps every four ticks and the
video's more often, and no silence is longer than half of either range. The listener
joins at tick 3, after packets were taken, so that play times are also negative.
`MediaTime_silence.cfg` allows any silence and checks `TracksAgree`. `MediaTime_wrap.cfg`
shows what the assumption of `LagIsOne` is needed for: with the video silent for longer
TLC finds `OneLag` violated.

`TypeOK` of `Registry`, `IpLimits`, `RtspSession`, `Relay`, `VideoSource`, `VideoWorker` and
`AudioEncoding`, `BansTypeOK` of `Blacklist`, and `OnePublisher`, are theorems and are not
checked again by the runs.

### Where code and text disagree

`video_hide`: the button says "Hide+Mute Video" (`client/lang/en.json:12`), but
`setVideoSourceHidden` (`client/scripts/streamer.js:1475`) sends the placeholder only when the
session has a video already. A video hidden while its worker is being created
is marked hidden and published. And showing a video posts it after an await, so a hide
in between reaches the worker first.

`page_link`: the button says "Generate Another Link" (`en.json:8`) and its hint to
paste the link shown, but `restartActiveWithCurrentSources` (`streamer.js:1392`) returns
early for a session without sources. That session goes on under its old code,
sources added later go there too, and the link shown leads to another stream.

## Proofs

`RegistryProofs` proves, for every finite set of sessions and all limits,
`TypeOK`, `CountersExact`, `ChannelExact`, `NoOrphan` and `OnePublisher`. The
inductive invariant joins the shape of a session's local state at each location,
the lock discipline (a writer excludes readers, and exactly the sessions at
`"hit"` and `"inserted"` hold the lock), the counting identities, and the
invariant that a reserved channel is the mapped one. None is inductive alone: that the
removal under the write lock hurts nobody needs the counts, and the counts need
the flag to have one owner. From the same invariant follows `Refines`: every atomic
operation, guard drop and sweep is one step of `Directory` or leaves all that
`Directory` sees alone. The steps that map to one are those that make a session live or
end it being live; `OwnerOfKey` says that a key's publisher is then the one live
session of it.

`LimitsProofs` proves of `IpLimits` the facts `TypeOK`, `PlacesExact`, `BudgetKept` and
`FullTableIsBusy` for any addresses, limits and window. `PlacesExact` is inductive
with the type, because only an entry without guards is pruned; `FullTableIsBusy` needs
that no instant in the table lies in the future and that every pruning leaves no
unused entry two windows old; `BudgetKept` needs that each recent request has a
place of its own within the budget of its window and that the windows of one
address start at least a window apart, even over a pruning between them.

Of `Blacklist` it proves `BansTypeOK`, `BansCounted`, `NoStaleBan`,
`CaughtStayBlocked` and `KickOnItsWay`. The strengthening says who owns a
channel's flag, that a session past its startup check is already covered by a
notification, and that every caught pair is in the table or its ID overflowed.

It proves as well, of an instance of `TokenBucket`, `TypeOK`, `NeverOverRate` and `PacedIsServed` for any rates,
burst and sizes. Its invariant ties the level to the windows: what a window was granted
and what is available never exceed what the greatest rate owes it, and for one window
they reach what the least rate owes it. `RefillFits` carries both over a refill, where
time and rate change at once; the products are split into linear steps.

`PageProofs` proves `OnlineIsSelected`, `LinkSettled`, `ModeInStep` and `LinkUnderWay`
for any servers, addresses, modes and number of codes and hashes. Its invariant
`Inv` adds to them that the newest hash is of the current code and an outdated
link always has one under way; that at most one call of `newLink` is at work,
either on its hash or on a restart; that a start under way finds no session, and
from its connection on has the mode of the select; and that a running change of
encoder has a session.

`ListenerProofs` proves `TypeOK`, `ChannelsDisjoint`, `Playable` and `OneStream` for
any streams, requests and range of at least eight channels; with fewer than that a
session could run out of pairs (`SelectedFits`). The strengthening `Subscribed` says
what a subscription fixes: its receivers until PLAY for a player without Media3, and
the key until another stream is described.

It also proves, of an instance of `MediaTime`, `TypeOK` and two facts about any tracks,
rates, ranges, delays, losses and resyncs. The lemmas `Ingested`, `Underway` and `Placed` say
what a step does to a normalizer, to a packet under way and to a packet placed; each fact
has an invariant of its own over these.

- `LagIsOne`, that is `OneLag`, assumes besides `Configured` that no silence exceeds half a
  track's range (`ShortSilences`). `HalfRange` is the arithmetic of it: a counter that moved
  by at most half its range has wrapped just when it stepped back by more than that. Hence
  a normalizer's state is the time of the last packet, unwrapped (`Unwrapped`), packets in
  flight carry their time (`InCommonTime`), and the lags are the distance of the anchor's
  two times (`OfTheAnchor`), which re-anchoring keeps.
- `OneClock`, that is `TracksAgree`, assumes nothing of the silences. What a normalizer adds is
  always a number of whole ranges (`OffsetsWhole`), so a packet is shifted by whole ranges of
  its own track's counter, rounded up in common time (`ShiftedWhole`); the listener's
  conversion takes the ranges out again (`OfTheClock`) and leaves the rounding, which
  `Rounds` bounds: one tick of the audio's and two of the video's with the code's rates.
  A negative play time that is truncated makes the video's one tick later instead
  (`Truncated`, `RoundsLate`); the audio's rate is the common one and truncates nothing.

`TokenBucket` and `MediaTime` state what is assumed of their constants as `Configured`, a
hypothesis of their theorems that the code's constants meet.

`RelayProofs` proves `TypeOK`, `NoForeignDelta`, `OwnAnchor` and `NoGap` for any
publishers, listeners, receivers and commands; the one assumption made for it, that
`None` is no publisher and no picture, the other modules make as well. Its invariant has
a part for the publishers, and one for each listener.

- Of the publishers (`PublisherInv`): the flag is held by one session from its admission
  to the operation that frees it; what a session still has to do ends with its frame; a
  deactivation is followed at once by its resync.
- `SessionInv`: between the frames of two sessions in a receiver, or between the frame a
  task works on and those a session may send, there is a break (a wake-up or a lag), and a
  session has sent no frame before its wake-up. A break makes the task look at the
  channel again. That is `NoForeignDelta`, in whatever order lags and
  resyncs come.
- `EraInv`: once a task has resynchronised in an epoch, the frame it holds, its anchor
  and its receivers are all of the one session that may send in that epoch.
  From it follows `OwnAnchor`, whose exception is exactly an epoch not yet read.
- `GapInv`: while the task shows the video, a missed frame, or a video that is no longer
  active, has a resync coming: its epoch differs, or a publisher has yet to advance it.

`AudioEncodingProofs` proves `TypeOK`, `NoStrayEncoder`, `Backpressure`, `Accounted` and
`SentInOrder` for any sessions, encoders and blocks. The invariant is built in three
layers, each of which uses those before it.

- `LifeInv`, who uses which worker: a start owns its encoder until the session has it; a
  swap belongs to the running session, and its encoder is open, loaded once the flush is
  asked, and not the session's; a worker that has not loaded said nothing.
- `PipeInv`, what lies between the page and the codec: the session's encoder is
  `Busy`, every other is `Idle`. Busy means that a flush is the last thing asked and the
  last thing answered, and that the page's figures are right up to the messages under
  way (`Counted`): blocks in the inbox and acknowledgements not yet heard of are pending, and
  each report falls short of the codec's queue at most by the acknowledgements behind
  it. This is why an encoder that judges by stale figures never exceeds its limit.
- `LineInv`, the blocks: packets arriving, the codec, the inbox and the page's buffer hold
  ascending blocks, each place wholly before the next, above the last one sent and up to
  the last captured (`Ordered`), and together with what is done they are all of
  them unless the codec failed (`Kept`). At the end of a swap `TakesOver` uses all three
  layers: the flush was answered last, so the old worker holds nothing, the new one is idle,
  and the buffer becomes its inbox.

`VideoSourceProofs` proves `TypeOK`, `NothingStray` and `ServerInStep` for any captures,
workers and calls. The two properties are conjuncts of an invariant that says besides: of
the calls that wait at most one is the request's, the others show a source again; a
worker's inbox has at most one source, which is that of its pending call; a request
that made a worker finds the session without a video, and one that did not uses the
session's. A request that withdraws (step `"closing"`) has made a worker and closed it. Each call settles on what it finds then, and these facts are what it finds.

`VideoWorkerProofs` proves `TypeOK`, `NoOldPicture`, `GapHeals`, `QualityInStep` and
`OutputRuns` for any number of sources, any qualities, and any codec queue and source
buffer. Its invariant `IInv` has a part for the worker and one for its conversation with
the page.

- `WorkerInv`, of the worker alone, given the source it last said it shows: the
  generation in use, the frames in the buffer and the rendered canvas are of that source,
  and nothing is read while it is being replaced; the codec holds packets of its own
  configuration only; the timer is set if there is something to show (`Paced`) and is not
  while the worker is paused. `OutputRuns` and `NoOldPicture` follow. `Paced` is
  not inductive by itself: that a command which resumes the worker has to schedule a
  frame depends on what the buffer, the canvas and the clock hold by then.
- `LoadInv`: the worker loads once, says nothing before, and is open as long as the page
  has not closed it or an error is on its way.
- `ChangeInv` and `ResumeInv`: a change of quality is in one place, asked for, under way
  or answered; there is one at a time, and its resume is read before the next.
- `QualityInv`: from the answer to a change until the page heard it, the worker is paused, its
  codec is empty and configured for the quality the page awaits; at any other time the codec is
  configured for the quality the server knows. Packets in the outbox lie before the
  answer and are of the old quality, so telling the server at the answer is in order.
- `GapInv`: a gap at the server has a cure somewhere on the way from the page to the
  server: a message that forces a key frame, the worker's demand for one, a key frame in the
  codec or in the outbox, or an error that ends the session.

The proof has three layers: a lemma for each function of the worker, which says
what it leaves of `Resting` and `Paced`; a lemma for each kind of exchange (`PageAsks`,
`Obeyed`, `PutsOut`, `HearsPacket`, ...), which says what it does to `PageInv`; and one for
each action, which puts the two together.

A proof module that treats several components extends one that shares no name with
the others and has the rest as instances, `Bucket` and `Media`; the names of
`Blacklist` differ from those of `IpLimits` so that both can be extended.

Only model-checked: the liveness properties, which are out of the prover's reach
(`DepartureCompletes` and `UnusedEntryGoes` of `Registry`, `RunningIsCaught` of `Blacklist`,
`PictureSettles` and `SilenceReturns` of `Relay`, `SwapSettles` of `AudioEncoding`,
`CallsSettle` of `VideoWorker`, `RequestSettles` of `VideoSource`, `HandshakeEnds` of
`RtspSession`). Every invariant and every refinement a run checks is also proved.

## Abstractions

- Atomics are sequentially consistent. The code's pairs are Acquire and Release
  on single variables; what needs two variables is re-checked under the lock.
- Lock poisoning and panics are left out, see above.
- A message of the page is delivered in order on each port; ports are not ordered
  with one another.
- Stream IDs and addresses are model values; hashing and parsing are not modelled.

## Plan

1. `Registry`, `Directory`, `Blacklist` and their proofs (done).
2. `IpLimits` and its proofs; `Relay` and `AudioEncoding`, model-checked (done).
3. `VideoWorker`, `VideoSource` and `Page`, model-checked; proofs of `Page` (done).
4. Proofs for `Relay`, and the refinement of `Directory` as a theorem (done).
5. Proofs of `AudioEncoding` and `VideoSource` (done).
6. `TokenBucket`, `RtspSession` and `MediaTime` with their proofs (done).
7. `TracksAgree` of `MediaTime` as a theorem, for any silence (done).
8. Proofs for `VideoWorker` (done).
9. A second session in `VideoSource`, which inherits the calls of the first.

## Not modelled, and why

Wire formats and configuration are sequential and byte-level; the repository's
unit tests cover them. Vendored scripts, styles, languages and shell scripts are not
part of the program's logic. Of the client: the video presets of a server
(`setVideoQualities`), loading of configuration and languages, rendering and
statistics texts (`ui.js`), the worker's rate control and drawing, capture options and
previews, the probing of native AAC and the worklet's sample arithmetic are data or
presentation. The wake lock and the audio graph of a session are left out.

Notes on the code, seen while modelling and stated by no property of a run:

- `normalize` (`websocket.rs:77`) sees a wrap only in the track's own packets, so a
  video first sent, or sent again, more than half its counter's 13.25 hours after the
  last is placed a range behind the audio (`MediaTime_wrap.cfg`). The timestamps that
  leave are still of one clock (`TracksAgree`); only a resync that a video packet answers
  first moves the audio's, by 13.25 hours.
- The first frame of a source is lost when the codec's queue is full: it has left the
  buffer before `encode` finds no room (`video-worker.js:364`).
- A reconfiguration makes a new canvas while the source counts as rendered, so a repeat
  may show it blank until the next frame (`Reconfigured`).
- An installation that fails neither restores nor stops the video it replaced nor
  the screen whose place it took (`streamer.js:1167`), and a source removed while it is
  being installed is published all the same.
- The worker's failure callbacks know the source it was made for, so after a
  replacement a failure is not noticed (`streamer.js:1161`).
- A capture granted after `requestSource` has given up waiting is never stopped.
- A Media3 player that sets up audio while there is no video and then describes the
  stream with video is told of a track it has no receiver for; PLAY with both fails and
  takes the audio receiver with it (`rtsp.rs:340`).
- A SETUP while playing is answered with new channels, but the media task keeps its own.
- A session's socket that closes while its audio graph is built is not noticed
  (`streamer.js:1323`), and a restart during a source request starts nothing while the
  request's capture is neither used nor stopped (`streamer.js:1390`).
- A quality chosen while the video is being started does not reach the worker
  (`streamer.js:1425`).

A note on `websocket.rs:108`: "A reload must not notify this session after its
final blacklist check." `notify_blacklisted_streamers` may have loaded
`streamer` as true before the guard cleared it and notify after the check. The
permit stays in the channel; the next publisher on it only checks its ID once
more, so no property of the blacklist depends on the comment.

A note on `streamer.js:474`: an error of an encoder that arrives after its ready
message and before the session object exists is ignored, because no session is
active. The model has the step (`Fail`, last disjunct of `ReceiveError`), and the session
then starts with an encoder that fails; see the hazard at `streamer.js:1214`.
