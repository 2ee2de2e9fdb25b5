------------------------------- MODULE Relay -------------------------------
(***************************************************************************)
(* Media relay of one channel of the VRCStreamer server: the publisher     *)
(* sessions that write its fields and broadcast rings (websocket.rs), and  *)
(* the media tasks of its RTSP listeners that read them without a lock     *)
(* (rtsp.rs).                                                              *)
(*                                                                         *)
(* A publisher's command is the sequence of its atomic operations on the   *)
(* channel, kept in `todo'; a media task is a loop whose place is `at'.  A *)
(* receiver of a broadcast ring is the sequence of messages it has not     *)
(* read.  Listeners keep the channel mapped, so it is one object.          *)
(***************************************************************************)
EXTENDS Naturals, Sequences

CONSTANTS
  Publishers, Listeners,
  None,
  AudioListeners, VideoListeners,   \* who set up which track
  Media3,                           \* whose placeholders are suppressed
  Inputs,                           \* what publishers send
  MayRefuse,                        \* MAX_STREAMERS is not 0
  Buffer,                           \* CHANNEL_BUFFER
  MaxAudioBacklog,                  \* MAX_AUDIO_BACKLOG_FRAMES
  MaxCommands                       \* bound of the model

Controls == {"video_start", "video_stop", "video_reset", "force_resync"}
Pictures == {"Offline", "AudioOnly", "Video"}

ASSUME RelayAssumption ==
  /\ AudioListeners \subseteq Listeners /\ VideoListeners \subseteq Listeners
  /\ Media3 \subseteq Listeners
  /\ Inputs \subseteq Controls \cup {"audio", "key", "delta"}
  /\ MaxAudioBacklog \in Nat /\ Buffer \in Nat \ {0} /\ MaxAudioBacklog <= Buffer
  /\ MaxCommands \in Nat /\ MayRefuse \in BOOLEAN
  /\ None \notin Publishers \cup Pictures

VARIABLES
  streamer, video_active, resync_epoch,   \* Channel
  phase, todo, framed,                    \* publishers; framed: sent an audio frame
  commands,                               \* bound: commands begun
  task, audio_rx, video_rx,               \* media tasks and their receivers
  shown,                                  \* history: session of the last picture sent
  gap,                                    \* history: a frame was missed since a keyframe
  resynced                                \* history: the task has seen an epoch change

channel    == <<streamer, video_active, resync_epoch>>
publishers == <<phase, todo, framed, commands>>
receivers  == <<audio_rx, video_rx>>
history    == <<shown, gap, resynced>>
vars       == <<channel, publishers, task, receivers, history>>

Messages == [kind : {"wake", "audio", "key", "delta"}, by : Publishers]
Lagged   == <<[kind |-> "lagged", by |-> None]>>

StartOps == <<"resync", "wake_audio", "wake_video">>
LeaveOpsEarly == <<"wake_audio", "wake_video", "free", "deactivate", "resync">>  \* variant
LeaveOps == <<"free", "deactivate", "resync", "wake_audio", "wake_video">>
ControlOpsEarly ==                                                \* variant
  [video_start  |-> <<"activate", "wake_video">>,
   video_stop   |-> <<"wake_video", "deactivate", "resync">>,
   video_reset  |-> <<"resync", "wake_video">>,
   force_resync |-> <<"resync">>]
ControlOps ==
  [video_start  |-> <<"activate", "wake_video">>,
   video_stop   |-> <<"deactivate", "resync", "wake_video">>,
   video_reset  |-> <<"resync", "wake_video">>,
   force_resync |-> <<"resync">>]

NoTask ==
  [at |-> "new", hand |-> None, epoch |-> 0, seen_keyframe |-> FALSE, last_state |-> None,
   streamer_active |-> FALSE, reporting |-> FALSE, timeline |-> 0, anchor |-> None]

Init ==
  /\ streamer = FALSE /\ video_active = FALSE /\ resync_epoch = 0
  /\ phase = [p \in Publishers |-> "new"]
  /\ todo = [p \in Publishers |-> <<>>]
  /\ framed = [p \in Publishers |-> FALSE]
  /\ commands = 0
  /\ task = [l \in Listeners |-> NoTask]
  /\ audio_rx = [l \in Listeners |-> <<>>]
  /\ video_rx = [l \in Listeners |-> <<>>]
  /\ shown = [l \in Listeners |-> None]
  /\ gap = [l \in Listeners |-> TRUE]
  /\ resynced = [l \in Listeners |-> FALSE]
-----------------------------------------------------------------------------
(* Publishers.                                                             *)

Idle(p) == todo[p] = <<>>

Begin(p, ops) == todo' = [todo EXCEPT ![p] = ops]

Enter(p, where) == phase' = [phase EXCEPT ![p] = where]

(* ingest_ws wins the channel.                                             *)
Admit(p) ==
  /\ phase[p] = "new" /\ ~streamer
  /\ streamer' = TRUE
  /\ Enter(p, "counting")
  /\ UNCHANGED <<video_active, resync_epoch, todo, framed, commands, task, receivers, history>>

(* The server is full: the flag is given back and nobody is told.          *)
Refuse(p) ==
  /\ MayRefuse
  /\ phase[p] = "counting"
  /\ Enter(p, "gone") /\ Begin(p, <<"free">>)
  /\ UNCHANGED <<channel, framed, commands, task, receivers, history>>

(* Upgraded, let through by the startup checks and greeted.                *)
Start(p) ==
  /\ phase[p] = "counting"
  /\ Enter(p, "live") /\ Begin(p, StartOps)
  /\ UNCHANGED <<channel, framed, commands, task, receivers, history>>

(* Any other end drops the session's StreamerGuard.                        *)
Leave(p) ==
  /\ phase[p] \in {"counting", "live"} /\ Idle(p)
  /\ Enter(p, "gone") /\ Begin(p, LeaveOps)
  /\ UNCHANGED <<channel, framed, commands, task, receivers, history>>

Command(p, input, ops) ==
  /\ input \in Inputs
  /\ phase[p] = "live" /\ Idle(p)
  /\ commands < MaxCommands /\ commands' = commands + 1
  /\ Begin(p, ops)
  /\ UNCHANGED <<channel, phase, task, receivers, history>>

Control(p) ==
  /\ \E input \in Controls : Command(p, input, ControlOps[input])
  /\ UNCHANGED framed

AudioFrame(p) ==
  /\ Command(p, "audio", IF framed[p] THEN <<"audio">> ELSE <<"wake_video", "audio">>)
  /\ framed' = [framed EXCEPT ![p] = TRUE]

VideoFrame(p) ==
  /\ \E kind \in {"key", "delta"} : Command(p, kind, <<"swap", kind>>)
  /\ UNCHANGED framed

(* One atomic operation of a publisher.                                    *)
Due(p, op) == todo[p] # <<>> /\ Head(todo[p]) = op

Then(p, ops) == todo' = [todo EXCEPT ![p] = ops \o Tail(@)]

Free(p) ==
  /\ Due(p, "free") /\ Then(p, <<>>)
  /\ streamer' = FALSE
  /\ UNCHANGED <<video_active, resync_epoch, receivers>>

Activate(p) ==
  /\ Due(p, "activate") /\ Then(p, <<>>)
  /\ video_active' = TRUE
  /\ UNCHANGED <<streamer, resync_epoch, receivers>>

Deactivate(p) ==
  /\ Due(p, "deactivate") /\ Then(p, <<>>)
  /\ video_active' = FALSE
  /\ UNCHANGED <<streamer, resync_epoch, receivers>>

(* A video frame activates the video, and tells listeners when it was not. *)
Swap(p) ==
  /\ Due(p, "swap") /\ Then(p, IF video_active THEN <<>> ELSE <<"wake_video">>)
  /\ video_active' = TRUE
  /\ UNCHANGED <<streamer, resync_epoch, receivers>>

Resync(p) ==
  /\ Due(p, "resync") /\ Then(p, <<>>)
  /\ resync_epoch' = resync_epoch + 1
  /\ UNCHANGED <<streamer, video_active, receivers>>

(* broadcast::Sender::send: a full receiver lags and loses what it holds.  *)
Received(rx, m) ==
  IF rx = Lagged \/ Len(rx) = Buffer THEN Lagged ELSE Append(rx, m)

SubscribedAudio(l) == l \in AudioListeners /\ task[l].at \notin {"new", "ended"}
SubscribedVideo(l) == l \in VideoListeners /\ task[l].at \notin {"new", "ready", "ended"}

SendAudio(p) ==
  /\ \E kind \in {"wake", "audio"} :
       /\ Due(p, IF kind = "wake" THEN "wake_audio" ELSE kind)
       /\ audio_rx' = [l \in Listeners |->
            IF SubscribedAudio(l) THEN Received(audio_rx[l], [kind |-> kind, by |-> p])
                                  ELSE audio_rx[l]]
  /\ Then(p, <<>>)
  /\ UNCHANGED <<channel, video_rx>>

SendVideo(p) ==
  /\ \E kind \in {"wake", "key", "delta"} :
       /\ Due(p, IF kind = "wake" THEN "wake_video" ELSE kind)
       /\ video_rx' = [l \in Listeners |->
            IF SubscribedVideo(l) THEN Received(video_rx[l], [kind |-> kind, by |-> p])
                                  ELSE video_rx[l]]
  /\ Then(p, <<>>)
  /\ UNCHANGED <<channel, audio_rx>>

Operate(p) ==
  /\ \/ Free(p) \/ Activate(p) \/ Deactivate(p) \/ Swap(p) \/ Resync(p)
     \/ SendAudio(p) \/ SendVideo(p)
  /\ UNCHANGED <<phase, framed, commands, task, history>>
-----------------------------------------------------------------------------
(* Listeners.                                                              *)

At(l, where) == task[l].at = where

Set(l, t) == task' = [task EXCEPT ![l] = t]

Go(l, where) == Set(l, [task[l] EXCEPT !.at = where])

Outside == <<channel, publishers>>

AwaitKeyframeNot(t) == t                                          \* variant
AwaitKeyframe(t) == [t EXCEPT !.seen_keyframe = FALSE]

Frames(rx) == {n \in DOMAIN rx : rx[n].kind # "wake"}

(* A new subscription starts at the live edge.                             *)
SubscribeAudio(l) == audio_rx' = [audio_rx EXCEPT ![l] = <<>>]

SubscribeVideo(l) ==
  /\ video_rx' = [video_rx EXCEPT ![l] = <<>>]
  /\ gap' = [gap EXCEPT ![l] = @ \/ Frames(video_rx[l]) # {}]

(* The first SETUP subscribes, and the audio receiver stays.               *)
Setup(l) ==
  /\ At(l, "new") /\ Go(l, "ready")
  /\ UNCHANGED <<Outside, receivers, history>>

(* PLAY starts the video at the live edge.                                 *)
Play(l) ==
  /\ At(l, "ready") /\ Go(l, "begin")
  /\ UNCHANGED <<Outside, receivers, history>>

LoadEpoch(l) ==
  /\ At(l, "begin")
  /\ Set(l, [task[l] EXCEPT !.at = "top", !.epoch = resync_epoch])
  /\ UNCHANGED <<Outside, receivers, history>>

(* The head of the loop compares the epoch.                                *)
Top(l) ==
  /\ At(l, "top")
  /\ Set(l, [task[l] EXCEPT !.epoch = resync_epoch,
               !.at = IF task[l].epoch = resync_epoch THEN "backlog" ELSE "resync_audio"])
  /\ UNCHANGED <<Outside, receivers, history>>

ResyncAudio(l) ==
  /\ At(l, "resync_audio") /\ Go(l, "resync_video")
  /\ SubscribeAudio(l)
  /\ UNCHANGED <<Outside, video_rx, history>>

ResyncVideo(l) ==
  /\ At(l, "resync_video")
  /\ Set(l, [AwaitKeyframe(task[l]) EXCEPT !.at = "backlog", !.last_state = None])
  /\ SubscribeVideo(l)
  /\ resynced' = [resynced EXCEPT ![l] = TRUE]
  /\ UNCHANGED <<Outside, audio_rx, shown>>

DropBacklog(l) ==
  /\ At(l, "backlog") /\ Go(l, IF l \in VideoListeners THEN "sync" ELSE "arm")
  /\ IF audio_rx[l] = Lagged \/ Len(audio_rx[l]) > MaxAudioBacklog
       THEN SubscribeAudio(l)
       ELSE UNCHANGED audio_rx
  /\ UNCHANGED <<Outside, video_rx, history>>

(* The picture a listener shows; a placeholder goes out when it changes.   *)
Show(l, state) ==
  IF task[l].last_state = state
    THEN [task[l] EXCEPT !.at = "arm"]
    ELSE [AwaitKeyframe(task[l]) EXCEPT !.at = "arm", !.last_state = state,
            !.reporting = @ \/ (state # "Video" /\ l \notin Media3)]

(* sync_state, with the two loads of channel_video_state apart.            *)
SyncStreamer(l) ==
  /\ At(l, "sync")
  /\ IF streamer THEN Go(l, "sync_video") ELSE Set(l, Show(l, "Offline"))
  /\ UNCHANGED <<Outside, receivers, history>>

SyncVideo(l) ==
  /\ At(l, "sync_video")
  /\ Set(l, Show(l, IF video_active THEN "Video" ELSE "AudioOnly"))
  /\ UNCHANGED <<Outside, receivers, history>>

Arm(l) ==
  /\ At(l, "arm")
  /\ Set(l, [task[l] EXCEPT !.at = "select", !.streamer_active = streamer])
  /\ UNCHANGED <<Outside, receivers, history>>

(* select!: an audio message, a video message, or a timer.                 *)
TakeAudio(l) ==
  /\ At(l, "select") /\ audio_rx[l] # <<>>
  /\ LET m == Head(audio_rx[l]) IN
     IF m.kind = "audio"
       THEN Set(l, [task[l] EXCEPT !.at = "audio", !.hand = m])
       ELSE Go(l, "top")
  /\ audio_rx' = [audio_rx EXCEPT ![l] = Tail(@)]
  /\ UNCHANGED <<Outside, video_rx, history>>

TakeVideo(l) ==
  /\ At(l, "select") /\ video_rx[l] # <<>>
  /\ LET m == Head(video_rx[l]) IN
     Set(l, CASE m.kind = "wake"   -> [AwaitKeyframe(task[l]) EXCEPT !.at = "top",
                                                                     !.last_state = None]
              [] m.kind = "lagged" -> [AwaitKeyframe(task[l]) EXCEPT !.at = "top"]
              [] OTHER             -> [task[l] EXCEPT !.at = "video", !.hand = m])
  /\ video_rx' = [video_rx EXCEPT ![l] = Tail(@)]
  /\ gap' = [gap EXCEPT ![l] = @ \/ video_rx[l] = Lagged]
  /\ UNCHANGED <<Outside, audio_rx, shown, resynced>>

Silence(l) ==
  /\ At(l, "select") /\ l \in AudioListeners /\ ~task[l].streamer_active
  /\ Set(l, [task[l] EXCEPT !.at = "top", !.reporting = TRUE])
  /\ UNCHANGED <<Outside, receivers, history>>

Report(l) ==
  /\ At(l, "select") /\ task[l].reporting
  /\ Go(l, "top")
  /\ UNCHANGED <<Outside, receivers, history>>

(* RtpMediaTimeline::map, called with the epoch the task last saw.         *)
MappedAnchored(t) ==                                              \* variant
  [t EXCEPT !.timeline = t.epoch, !.anchor = IF @ = None THEN t.hand.by ELSE @]
Mapped(t) ==
  [t EXCEPT !.timeline = t.epoch,
            !.anchor = IF t.timeline # t.epoch \/ @ = None THEN t.hand.by ELSE @]

Sent(t) == [Mapped(t) EXCEPT !.at = "top", !.hand = None, !.reporting = TRUE]

Put(t) == [t EXCEPT !.at = "top", !.hand = None]

HandleAudio(l) ==
  /\ At(l, "audio")
  /\ Set(l, IF streamer THEN Sent(task[l]) ELSE Put(task[l]))
  /\ UNCHANGED <<Outside, receivers, history>>

(* A video frame: the two loads of channel_video_state, the age of a       *)
(* backlog, the keyframe gate.                                             *)
CheckStreamer(l) ==
  /\ At(l, "video")
  /\ IF streamer THEN Go(l, "frame") /\ UNCHANGED gap
                 ELSE Set(l, Put(task[l])) /\ gap' = [gap EXCEPT ![l] = TRUE]
  /\ UNCHANGED <<Outside, receivers, shown, resynced>>

Skip(l) ==
  /\ At(l, "frame") /\ ~video_active
  /\ Set(l, Put(task[l]))
  /\ gap' = [gap EXCEPT ![l] = TRUE]
  /\ UNCHANGED <<Outside, receivers, shown, resynced>>

Expire(l) ==
  /\ At(l, "frame") /\ video_active
  /\ video_rx[l] # <<>>
  /\ Set(l, AwaitKeyframe(Put(task[l])))
  /\ video_rx' = [video_rx EXCEPT ![l] = <<>>]
  /\ gap' = [gap EXCEPT ![l] = TRUE]
  /\ UNCHANGED <<Outside, audio_rx, shown, resynced>>

GatedByPicture(t) == t.hand.kind = "delta" /\ t.last_state # "Video"   \* variant
Gated(t) ==
  t.hand.kind = "delta" /\ ~(t.seen_keyframe /\ t.last_state = "Video")

HandleVideo(l) ==
  /\ At(l, "frame") /\ video_active
  /\ LET t == [task[l] EXCEPT !.last_state = "Video"] IN
     IF Gated(task[l])
       THEN /\ Set(l, AwaitKeyframe(Put(t)))
            /\ gap' = [gap EXCEPT ![l] = TRUE]
            /\ UNCHANGED shown
       ELSE /\ Set(l, [Sent(t) EXCEPT !.seen_keyframe = TRUE])
            /\ gap' = [gap EXCEPT ![l] = @ /\ t.hand.kind = "delta"]
            /\ shown' = [shown EXCEPT ![l] = t.hand.by]
  /\ UNCHANGED <<Outside, receivers, resynced>>

(* The connection ends, or a write fails.                                  *)
End(l) ==
  /\ task[l].at \in {"ready", "begin", "top", "arm", "select"}
  /\ Set(l, [NoTask EXCEPT !.at = "ended"])
  /\ audio_rx' = [audio_rx EXCEPT ![l] = <<>>]
  /\ video_rx' = [video_rx EXCEPT ![l] = <<>>]
  /\ shown' = [shown EXCEPT ![l] = None]
  /\ gap' = [gap EXCEPT ![l] = TRUE]
  /\ resynced' = [resynced EXCEPT ![l] = FALSE]
  /\ UNCHANGED Outside

Turn(l) ==
  \/ LoadEpoch(l) \/ Top(l) \/ ResyncAudio(l) \/ ResyncVideo(l) \/ DropBacklog(l)
  \/ SyncStreamer(l) \/ SyncVideo(l) \/ Arm(l) \/ HandleAudio(l)
  \/ CheckStreamer(l) \/ Skip(l) \/ Expire(l) \/ HandleVideo(l)

Next ==
  \/ \E p \in Publishers :
       \/ Admit(p) \/ Refuse(p) \/ Start(p) \/ Leave(p)
       \/ Control(p) \/ AudioFrame(p) \/ VideoFrame(p) \/ Operate(p)
  \/ \E l \in Listeners :
       \/ Setup(l) \/ Play(l) \/ Turn(l) \/ End(l)
       \/ TakeAudio(l) \/ TakeVideo(l) \/ Silence(l) \/ Report(l)

Spec == Init /\ [][Next]_vars

(* The runtime polls ready tasks, and select! picks among ready branches   *)
(* at random.  Timers are not counted on.                                  *)
Fairness ==
  /\ \A p \in Publishers : WF_vars(Operate(p)) /\ WF_vars(Start(p))
  /\ \A l \in Listeners :
       WF_vars(Turn(l)) /\ SF_vars(TakeAudio(l)) /\ SF_vars(TakeVideo(l))

FairSpec == Spec /\ Fairness
-----------------------------------------------------------------------------
(* A receiver holds at most Buffer messages or has lagged, and a task's    *)
(* epochs are epochs of its channel.                                       *)
TypeOK ==
  /\ streamer \in BOOLEAN /\ video_active \in BOOLEAN /\ resync_epoch \in Nat
  /\ phase \in [Publishers -> {"new", "counting", "live", "gone"}]
  /\ framed \in [Publishers -> BOOLEAN] /\ commands \in 0 .. MaxCommands
  /\ shown \in [Listeners -> Publishers \cup {None}] /\ gap \in [Listeners -> BOOLEAN]
  /\ \A l \in Listeners :
       /\ \A rx \in {audio_rx[l], video_rx[l]} :
            rx = Lagged \/ (rx \in Seq(Messages) /\ Len(rx) <= Buffer)
       /\ task[l].hand \in Messages \cup {None}
       /\ task[l].last_state \in Pictures \cup {None}
       /\ task[l].epoch \in 0 .. resync_epoch
       /\ task[l].timeline \in 0 .. task[l].epoch

(* The frame in hand goes out next.                                        *)
Sending(l) ==
  \/ At(l, "audio") /\ streamer
  \/ At(l, "frame") /\ video_active /\ ~Gated(task[l])

SendingDelta(l) == At(l, "frame") /\ Sending(l) /\ task[l].hand.kind = "delta"

(* A delta frame goes out only after a frame of its own session: the       *)
(* keyframe gate of VideoRtpTrack closes whenever the publisher changes.   *)
NoForeignDelta ==
  \A l \in Listeners : SendingDelta(l) => shown[l] = task[l].hand.by

ResyncDue(l) ==
  \/ task[l].epoch # resync_epoch
  \/ \E p \in Publishers : \E n \in DOMAIN todo[p] : todo[p][n] = "resync"

(* A delta frame goes out only if every frame since its keyframe did: a    *)
(* track that lags, expires a backlog or skips a frame waits for the next  *)
(* keyframe.  The exception is a skip undone before sync_state looks, and  *)
(* then a resync that repairs the picture is on its way.                   *)
NoGap == \A l \in Listeners : SendingDelta(l) => ~gap[l] \/ ResyncDue(l)

OwnTime(l) == Mapped(task[l]).anchor = task[l].hand.by

(* The audio and video frames of a session are timed against a frame of    *)
(* that session, once the listener has seen a session begin, unless an     *)
(* epoch it has not read yet will move the anchor.                         *)
OwnAnchor ==
  \A l \in Listeners :
    Sending(l) /\ resynced[l] => OwnTime(l) \/ task[l].epoch # resync_epoch

Picture ==
  IF ~streamer THEN "Offline" ELSE IF video_active THEN "Video" ELSE "AudioOnly"

Playing(l) == task[l].at \notin {"new", "ready", "ended"}

(* What a listener shows catches up with channel_video_state, by the       *)
(* wake-ups alone.                                                         *)
PictureSettles ==
  \A l \in VideoListeners, state \in Pictures :
    <>[](Picture = state) => <>[](Playing(l) => task[l].last_state = state)

(* After the publisher has left, the silence timer of next_audio_event is  *)
(* armed for good, by the wake-ups alone.                                  *)
SilenceReturns ==
  \A l \in AudioListeners :
    <>[](~streamer) => <>[](At(l, "select") => ~task[l].streamer_active)
=============================================================================
