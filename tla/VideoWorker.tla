----------------------------- MODULE VideoWorker -----------------------------
(***************************************************************************)
(* Video path of the VRCStreamer client: a worker reads the frames of a    *)
(* captured source, draws them at the rate of the audio clock and encodes  *)
(* them; the page owns the worker and sends its packets to the WebSocket   *)
(* (video-worker.js; createVideoWorker and createPublisherTransport of     *)
(* streamer.js).                                                           *)
(*                                                                         *)
(* The worker obeys the commands of the page one after the other, but its  *)
(* read loops, its pacing timer and its codec run while a command waits.   *)
(* Operators on w stand for the functions of the worker, which change its  *)
(* global variables: a handler composes them.                              *)
(***************************************************************************)
EXTENDS Naturals, Sequences

CONSTANTS
  Qualities, First,     \* the qualities of the server; the one at the start
  None,
  EncoderQueue,         \* MAX_ENCODER_QUEUE
  SourceBuffer,         \* SOURCE_BUFFER_FRAMES
  MaxSources,           \* bounds of the model: sources installed,
  MaxChanges,           \*   changes of quality,
  MaxPolls,             \*   changes of the upload's congestion,
  MaxPosted,            \*   packets posted while the page has not looked,
  MaxCommands           \*   commands the worker has not read at a call of the page

Sources == 1 .. MaxSources      \* in the order of the calls; 0 is the placeholder

ASSUME VideoAssumption ==
  /\ First \in Qualities /\ None \notin Qualities
  /\ EncoderQueue \in Nat \ {0} /\ SourceBuffer \in Nat \ {0}
  /\ MaxSources \in Nat /\ MaxChanges \in Nat /\ MaxPolls \in Nat /\ MaxPosted \in Nat
  /\ MaxCommands \in Nat

VARIABLES
  page,                 \* the handle: phase and calls under way
  congested,            \* the transport found the socket's buffer too full
  wire,                 \* what the server was told: quality, key frame missing
  spent,                \* calls and polls made so far
  inbox, outbox,        \* messages to and from the worker
  worker,
  accepted              \* history: the source the worker last said it shows

vars == <<page, congested, wire, spent, inbox, outbox, worker, accepted>>

Message(type) == [type |-> type, source |-> 0, quality |-> None, key |-> FALSE]

(* The global variables of the worker.                                     *)
Loaded ==
  [closed |-> TRUE, paused |-> FALSE, networkPaused |-> FALSE, placeholder |-> TRUE,
   rendered |-> FALSE, buffer |-> <<>>, reader |-> 0, loops |-> {}, timer |-> FALSE,
   clock |-> "none", force |-> TRUE, canvas |-> 0, config |-> None, queue |-> <<>>,
   doing |-> "idle", call |-> Message("none")]

Init ==
  /\ page = [phase |-> "starting", source |-> 0, quality |-> None]
  /\ congested \in BOOLEAN
  /\ wire = [quality |-> First, gap |-> TRUE]
  /\ spent = [sources |-> 0, changes |-> 0, polls |-> 0]
  /\ inbox = <<Message("init")>> /\ outbox = <<>>
  /\ worker = Loaded
  /\ accepted = 0
-----------------------------------------------------------------------------
(* Calls of the page.                                                      *)

Posted(types) == \E n \in DOMAIN inbox : inbox[n].type \in types

Call(message) == inbox' = Append(inbox, message)

Ready == page.phase = "ready" /\ Len(inbox) < MaxCommands

CallSource ==
  /\ Ready /\ page.source = 0
  /\ spent.sources < MaxSources
  /\ LET c == spent.sources + 1 IN
     /\ page' = [page EXCEPT !.source = c]
     /\ spent' = [spent EXCEPT !.sources = c]
     /\ Call([Message("source") EXCEPT !.source = c])
  /\ UNCHANGED <<congested, wire, outbox, worker, accepted>>

CallReconfigure ==
  /\ Ready /\ page.quality = None
  /\ spent.changes < MaxChanges
  /\ \E q \in Qualities :
       /\ page' = [page EXCEPT !.quality = q]
       /\ Call([Message("reconfigure") EXCEPT !.quality = q])
  /\ spent' = [spent EXCEPT !.changes = @ + 1]
  /\ UNCHANGED <<congested, wire, outbox, worker, accepted>>

(* No second one is posted before the first is read, a bound of the model. *)
CallPlaceholder ==
  /\ Ready /\ ~Posted({"placeholder"})
  /\ Call(Message("placeholder"))
  /\ UNCHANGED <<page, congested, wire, spent, outbox, worker, accepted>>

(* rejectPending, and the phase that follows.                              *)
RejectNothing(phase) == page' = [page EXCEPT !.phase = phase]     \* variant
Reject(phase) == page' = [phase |-> phase, source |-> 0, quality |-> None]

(* close, also when the transport gives up the upload.                     *)
CallClose ==
  /\ page.phase \in {"starting", "ready"}
  /\ Reject("closing")
  /\ Call(Message("close"))
  /\ UNCHANGED <<congested, wire, spent, outbox, worker, accepted>>

(* What poll may find, and the notice it sends to an attached worker.      *)
Findings == IF spent.polls < MaxPolls THEN BOOLEAN ELSE {congested}

Polled(now) ==
  /\ congested' = now
  /\ spent' = IF now = congested THEN spent ELSE [spent EXCEPT !.polls = @ + 1]
  /\ inbox' = IF now = congested \/ page.phase # "ready" THEN inbox
              ELSE Append(inbox, Message(IF now THEN "transport-pause" ELSE "transport-resume"))

(* Audio packets poll the transport too.                                   *)
Poll ==
  /\ \E now \in Findings : now # congested /\ Polled(now)
  /\ UNCHANGED <<page, wire, outbox, worker, accepted>>
-----------------------------------------------------------------------------
(* Functions of the worker.                                                *)

(* scheduleNextFrame, startCurrentOutput                                   *)
Scheduled(w) ==
  IF w.closed \/ w.paused \/ w.networkPaused \/ w.clock = "none" THEN w
  ELSE [w EXCEPT !.timer = TRUE]

CanOutput(w) == w.placeholder \/ w.rendered \/ w.buffer # <<>>

Started(w) == IF CanOutput(w) THEN Scheduled(w) ELSE w

HeldIdle(w) ==                                                    \* variant
  [w EXCEPT !.buffer = <<>>, !.rendered = FALSE, !.placeholder = TRUE, !.force = TRUE]

(* enterPlaceholder                                                        *)
Held(w) ==
  Started([w EXCEPT !.buffer = <<>>, !.rendered = FALSE, !.placeholder = TRUE, !.force = TRUE])

(* onSourceFrame                                                           *)
Arrived(w, c) ==
  Started([w EXCEPT
    !.buffer = Append(IF Len(@) = SourceBuffer THEN Tail(@) ELSE @, c),
    !.rendered = @ /\ ~w.placeholder,
    !.force = @ \/ w.placeholder,
    !.placeholder = FALSE])

(* stopSource: the loops of an older generation find reader changed.       *)
Stopped(w) == [w EXCEPT !.reader = 0]

(* closeAll.  Its awaits hide nothing: once closed is set, what loops and  *)
(* codec do is dropped and the other variables are not read any more.      *)
Closed(w) == [Loaded EXCEPT !.paused = TRUE, !.doing = w.doing, !.call = w.call]

Pausing(w) == [w EXCEPT !.paused = TRUE, !.timer = FALSE]

Idle(w) == [w EXCEPT !.doing = "idle", !.call = Message("none")]

Work(w, messages) ==
  /\ worker' = w
  /\ outbox' = outbox \o messages
  /\ UNCHANGED <<page, congested, wire, spent>>

(* fail: it does not wait for the command under way.                       *)
Fail(w) == Work(Closed(w), <<Message("error")>>)
-----------------------------------------------------------------------------
(* Commands, one at a time.                                                *)

Obey(type) ==
  /\ worker.doing = "idle"
  /\ inbox # <<>> /\ Head(inbox).type = type
  /\ type \in {"init", "close"} \/ ~worker.closed
  /\ inbox' = Tail(inbox)

Begin(w, step) == [w EXCEPT !.doing = step, !.call = Head(inbox)]

HandleInit ==
  /\ Obey("init")
  /\ Work(Begin([worker EXCEPT !.closed = FALSE], "init"), <<>>)
  /\ UNCHANGED accepted

FinishInit ==
  /\ worker.doing = "init"
  /\ \/ Work(Started(Idle([worker EXCEPT !.config = First, !.clock = "fresh"])),
             <<Message("ready")>>)
     \/ Fail(Idle(worker))
  /\ UNCHANGED <<inbox, accepted>>

(* setSource waits for the previous reader to be cancelled.                *)
HandleSource ==
  /\ Obey("source")
  /\ Work(Begin(Stopped(worker), "source"), <<>>)
  /\ UNCHANGED accepted

FinishSource ==
  /\ worker.doing = "source"
  /\ LET c == worker.call.source
         w == Idle(IF worker.placeholder THEN worker ELSE Held(worker)) IN
     /\ Work(IF w.closed THEN w ELSE [w EXCEPT !.reader = c, !.loops = @ \cup {c}],
             <<Message("source-ready")>>)
     /\ accepted' = c
  /\ UNCHANGED inbox

(* usePlaceholder                                                          *)
HandlePlaceholder ==
  /\ Obey("placeholder")
  /\ IF worker.placeholder /\ worker.reader = 0
       THEN Work(worker, <<>>) /\ accepted' = 0
       ELSE Work(Begin(Stopped(worker), "placeholder"), <<>>) /\ UNCHANGED accepted

FinishPlaceholder ==
  /\ worker.doing = "placeholder"
  /\ Work(Held(Idle(worker)), <<>>)
  /\ accepted' = 0
  /\ UNCHANGED inbox

(* reconfigure: the support of the new settings is asked for, then the     *)
(* previous encoder flushed.                                               *)
HandleReconfigure ==
  /\ Obey("reconfigure")
  /\ Work(Begin(worker, "support"), <<>>)
  /\ UNCHANGED accepted

GiveUpReconfigure ==
  Work(Started(Idle([worker EXCEPT !.paused = FALSE])), <<Message("reconfigure-error")>>)

CheckSupport ==
  /\ worker.doing = "support"
  /\ \/ ~worker.closed /\ Work([Pausing(worker) EXCEPT !.doing = "flush"], <<>>)
     \/ GiveUpReconfigure
  /\ UNCHANGED <<inbox, accepted>>

Reconfigured(w) ==
  Idle([w EXCEPT !.config = w.call.quality, !.canvas = 0, !.force = TRUE])

FlushedEarly(w) == TRUE                                           \* variant
Flushed(w) == w.queue = <<>>

(* What failed meanwhile closed the worker; the flush may still succeed.   *)
FinishFlush ==
  /\ worker.doing = "flush"
  /\ \/ /\ ~worker.closed /\ Flushed(worker)
        /\ Work(Reconfigured(worker), <<Message("reconfigured")>>)
     \/ worker.closed /\ GiveUpReconfigure
     \/ worker.closed /\ Work(Idle(worker), <<Message("reconfigured")>>)
  /\ UNCHANGED <<inbox, accepted>>

(* Commands that wait for nothing.                                         *)
Immediate(type, w, messages) == Obey(type) /\ Work(w, messages) /\ UNCHANGED accepted

UnpausedUnforced(w) == [w EXCEPT !.networkPaused = FALSE]         \* variant
Unpaused(w) == [w EXCEPT !.networkPaused = FALSE, !.force = TRUE]

HandleResume ==
  Immediate("resume", Started([worker EXCEPT !.paused = FALSE, !.force = TRUE]), <<>>)

HandleTransportPause ==
  Immediate("transport-pause", [worker EXCEPT !.networkPaused = TRUE, !.timer = FALSE], <<>>)

HandleTransportResume == Immediate("transport-resume", Started(Unpaused(worker)), <<>>)

HandleClose == Immediate("close", Closed(worker), <<Message("closed")>>)

(* syncAudioClock.  The page posts times all along, so one may stand       *)
(* between any two commands; after a long gap it forces a key frame.       *)
HandleAudioClock ==
  /\ worker.doing = "idle" /\ ~worker.closed
  /\ \E gap \in IF worker.clock = "stale" THEN BOOLEAN ELSE {FALSE} :
       Work(Started([worker EXCEPT !.clock = "fresh", !.force = @ \/ gap]), <<>>)
  /\ UNCHANGED <<inbox, accepted>>

IgnoreCommand ==
  /\ worker.doing = "idle" /\ worker.closed
  /\ inbox # <<>> /\ Head(inbox).type \notin {"init", "close"}
  /\ inbox' = Tail(inbox)
  /\ Work(worker, <<>>)
  /\ UNCHANGED accepted

Serve ==
  \/ HandleInit \/ FinishInit \/ HandleSource \/ FinishSource
  \/ HandlePlaceholder \/ FinishPlaceholder
  \/ HandleReconfigure \/ CheckSupport \/ FinishFlush \/ HandleResume
  \/ HandleTransportPause \/ HandleTransportResume
  \/ HandleClose \/ IgnoreCommand
-----------------------------------------------------------------------------
(* What runs beside the commands.                                          *)

Beside == UNCHANGED <<inbox, accepted>>

(* readSource: a frame, the end of the source, a failed read.  What comes  *)
(* for an older generation is closed and ends its loop.                    *)
OfAnyGeneration(c) == TRUE                                        \* variant
OfThisGeneration(c) == worker.reader = c

Ended(c) == [worker EXCEPT !.loops = @ \ {c}]

Frame(c) ==
  /\ c \in worker.loops
  /\ Work(IF OfThisGeneration(c) THEN Arrived(worker, c) ELSE Ended(c), <<>>)
  /\ Beside

EndOfSource(c) ==
  /\ c \in worker.loops
  /\ Work(IF OfThisGeneration(c) THEN Stopped(Held(Ended(c))) ELSE Ended(c), <<>>)
  /\ Beside

ReadFails(c) ==
  /\ c \in worker.loops /\ OfThisGeneration(c)
  /\ Fail(Ended(c))
  /\ Beside

(* createOutputFrame and encode, if the codec has room.                    *)
Packet(key) == [Message("packet") EXCEPT !.key = key, !.quality = worker.config]

Submitted(w, canvas, key) ==
  IF w.config = None \/ Len(w.queue) >= EncoderQueue THEN w
  ELSE [w EXCEPT !.canvas = canvas, !.queue = Append(@, Packet(key)), !.force = FALSE,
                 !.rendered = @ \/ canvas # 0]

(* runPacing: the next source frame, the placeholder or the canvas again;  *)
(* with a stale clock it may be too early, and the timer is not set again. *)
(* The first frames of a source wait for a second one or a frame's time.   *)
RunPacing ==
  /\ worker.timer
  /\ \/ worker.clock = "stale" /\ Work([worker EXCEPT !.timer = FALSE], <<>>)
     \/ \E due \in BOOLEAN, late \in BOOLEAN :
          LET key   == worker.force \/ due
              ready == ~worker.placeholder /\
                         (worker.rendered \/ Len(worker.buffer) >= SourceBuffer \/ late) IN
          Work(IF ready /\ worker.buffer # <<>>
                 THEN Submitted([worker EXCEPT !.buffer = Tail(@)], Head(worker.buffer), key)
               ELSE IF worker.placeholder \/ ~worker.rendered THEN Submitted(worker, 0, key)
               ELSE Submitted(worker, worker.canvas, key), <<>>)
  /\ Beside

(* The codec puts a packet out.                                            *)
Output ==
  /\ worker.queue # <<>> /\ Len(outbox) < MaxPosted
  /\ Work([worker EXCEPT !.queue = Tail(@)], <<Head(worker.queue)>>)
  /\ Beside

EncoderFails ==
  /\ ~worker.closed /\ worker.config # None
  /\ Fail(worker)
  /\ Beside

(* AUDIO_CLOCK_GRACE_MS pass without a time from the page.                 *)
ClockGoesStale ==
  /\ worker.clock = "fresh" /\ ~worker.closed
  /\ Work([worker EXCEPT !.clock = "stale"], <<>>)
  /\ Beside
-----------------------------------------------------------------------------
(* Messages of the worker reach the page.                                  *)

Receive(type) ==
  /\ outbox # <<>> /\ Head(outbox).type = type
  /\ UNCHANGED accepted

Take == outbox' = Tail(outbox) /\ UNCHANGED worker

(* terminate: what the worker had posted has no effect any more.           *)
Terminate ==
  /\ Reject("terminated")
  /\ worker' = Loaded
  /\ inbox' = <<>> /\ outbox' = <<>>

ReceiveReady ==
  /\ Receive("ready") /\ Take
  /\ IF page.phase = "starting"
       THEN /\ page' = [page EXCEPT !.phase = "ready"]
            /\ IF congested THEN Call(Message("transport-pause")) ELSE UNCHANGED inbox
       ELSE UNCHANGED <<page, inbox>>
  /\ UNCHANGED <<congested, wire, spent>>

ReceiveSourceReady ==
  /\ Receive("source-ready") /\ Take
  /\ page' = [page EXCEPT !.source = 0]
  /\ UNCHANGED <<congested, wire, spent, inbox>>

(* A packet is sent, or dropped while the upload is congested.             *)
ReceivePacket ==
  /\ Receive("packet") /\ Take
  /\ IF page.phase = "ready"
       THEN \E now \in Findings :
              /\ Polled(now)
              /\ wire' = [wire EXCEPT !.gap = now \/ (@ /\ ~Head(outbox).key)]
       ELSE UNCHANGED <<congested, spent, inbox, wire>>
  /\ UNCHANGED page

(* The server is told before the worker resumes; the socket may be closed. *)
ReceiveReconfigured ==
  /\ Receive("reconfigured")
  /\ \/ page.quality = None /\ Take /\ UNCHANGED <<page, inbox, wire>>
     \/ /\ page.quality # None
        /\ wire' = [quality |-> page.quality, gap |-> TRUE]
        /\ Call(Message("resume"))
        /\ page' = [page EXCEPT !.quality = None]
        /\ Take
     \/ page.quality # None /\ Terminate /\ UNCHANGED wire
  /\ UNCHANGED <<congested, spent>>

ReceiveReconfigureError ==
  /\ Receive("reconfigure-error") /\ Take
  /\ page' = [page EXCEPT !.quality = None]
  /\ UNCHANGED <<congested, wire, spent, inbox>>

ReceiveClosed ==
  /\ Receive("closed") /\ Terminate
  /\ UNCHANGED <<congested, wire, spent>>

ReceiveError ==
  /\ Receive("error")
  /\ IF page.phase = "closing" THEN Take /\ UNCHANGED <<page, inbox>> ELSE Terminate
  /\ UNCHANGED <<congested, wire, spent>>

Deliver ==
  \/ ReceiveReady \/ ReceiveSourceReady \/ ReceivePacket \/ ReceiveReconfigured
  \/ ReceiveReconfigureError \/ ReceiveClosed \/ ReceiveError

(* The timers of source, reconfigure and close.                            *)
GiveUp ==
  /\ page.source # 0 \/ page.quality # None \/ page.phase = "closing"
  /\ Terminate
  /\ UNCHANGED <<congested, wire, spent, accepted>>

Next ==
  \/ CallSource \/ CallReconfigure \/ CallPlaceholder \/ CallClose
  \/ Poll \/ Deliver \/ GiveUp \/ Serve
  \/ \E c \in Sources : Frame(c) \/ EndOfSource(c) \/ ReadFails(c)
  \/ HandleAudioClock \/ RunPacing \/ Output \/ EncoderFails \/ ClockGoesStale

Spec == Init /\ [][Next]_vars

(* Event loops run, and a codec puts out what it took.  Timers of the page,*)
(* frames and the audio clock are not counted on.                          *)
FairSpec == Spec /\ WF_vars(Deliver) /\ WF_vars(Serve) /\ WF_vars(Output)
-----------------------------------------------------------------------------
TypeOK ==
  /\ page.phase \in {"starting", "ready", "closing", "terminated"}
  /\ page.source \in Sources \cup {0} /\ page.quality \in Qualities \cup {None}
  /\ congested \in BOOLEAN
  /\ wire \in [quality : Qualities, gap : BOOLEAN]
  /\ \A n \in DOMAIN inbox : inbox[n].source \in Sources \cup {0}
  /\ worker.buffer \in Seq(Sources) /\ Len(worker.buffer) <= SourceBuffer
  /\ Len(worker.queue) <= EncoderQueue
  /\ worker.loops \subseteq Sources /\ worker.reader \in worker.loops \cup {0}
  /\ worker.canvas \in Sources \cup {0} /\ worker.config \in Qualities \cup {None}
  /\ worker.clock \in {"none", "fresh", "stale"}

(* Once the worker says it shows a source, nothing it may draw or repeat   *)
(* is of an older one, although frames of that may still be read.          *)
NoOldPicture ==
  worker.doing \notin {"source", "placeholder"} /\ ~worker.closed =>
    /\ \A n \in DOMAIN worker.buffer : worker.buffer[n] = accepted
    /\ worker.rendered => worker.canvas \in {accepted, 0}

(* A gap in what was sent, made by packets dropped in a congestion or by a *)
(* new encoder, is never left open: while the server misses a key frame    *)
(* one is on its way, or something that forces one.                        *)
GapHeals ==
  wire.gap /\ page.phase = "ready" =>
    \/ congested \/ Posted({"resume", "transport-resume"}) \/ worker.force
    \/ \E n \in DOMAIN worker.queue : worker.queue[n].key
    \/ \E n \in DOMAIN outbox : outbox[n].key \/ outbox[n].type = "error"

(* A packet is sent under the quality the server was last told.            *)
QualityInStep ==
  outbox # <<>> /\ Head(outbox).type = "packet" /\ page.phase = "ready" =>
    Head(outbox).quality = wire.quality

(* The two pauses, the clock and the sources may come and go in any order: *)
(* a worker that may show something has its timer set.                     *)
OutputRuns ==
  ~worker.closed /\ ~worker.paused /\ ~worker.networkPaused /\ worker.clock = "fresh"
  /\ CanOutput(worker) => worker.timer

(* Calls of the page settle without its timers, and a worker that a change *)
(* of quality paused goes on.                                              *)
CallsSettle ==
  /\ \A c \in Sources : (page.source = c) ~> (page.source # c)
  /\ (page.quality # None) ~> (page.quality = None)
  /\ (worker.paused /\ ~worker.closed) ~> (~worker.paused \/ worker.closed)
=============================================================================
