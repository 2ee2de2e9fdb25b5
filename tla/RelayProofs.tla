----------------------------- MODULE RelayProofs -----------------------------
(***************************************************************************)
(* Proofs about Relay, for any sessions, listeners, buffers and inputs:    *)
(* what a listener may be sent when publishers come and go.                *)
(***************************************************************************)
EXTENDS Relay, Integers, SequenceTheorems, TLAPS

Ops == {"resync", "wake_audio", "wake_video", "free", "deactivate", "activate",
        "swap", "audio", "key", "delta"}

Places == {"new", "ready", "begin", "top", "resync_audio", "resync_video", "backlog",
           "sync", "sync_video", "arm", "select", "audio", "video", "frame", "ended"}

Task == [at : Places, hand : Messages \cup {None}, epoch : Nat, seen_keyframe : BOOLEAN,
         last_state : Pictures \cup {None}, streamer_active : BOOLEAN, reporting : BOOLEAN,
         timeline : Nat, anchor : Publishers \cup {None}]

LagMark == [kind |-> "lagged", by |-> None]
Items == Messages \cup {LagMark}

Bounded(rx) == rx = Lagged \/ (rx \in Seq(Messages) /\ Len(rx) <= Buffer)

PublisherTypes ==
  /\ streamer \in BOOLEAN /\ video_active \in BOOLEAN /\ resync_epoch \in Nat
  /\ phase \in [Publishers -> {"new", "counting", "live", "gone"}]
  /\ todo \in [Publishers -> Seq(Ops)]
  /\ framed \in [Publishers -> BOOLEAN] /\ commands \in 0 .. MaxCommands

ListenerTypes ==
  /\ task \in [Listeners -> Task]
  /\ audio_rx \in [Listeners -> Seq(Items)]
  /\ video_rx \in [Listeners -> Seq(Items)]
  /\ \A l \in Listeners : Bounded(audio_rx[l]) /\ Bounded(video_rx[l])
  /\ shown \in [Listeners -> Publishers \cup {None}]
  /\ gap \in [Listeners -> BOOLEAN] /\ resynced \in [Listeners -> BOOLEAN]

(* A frame is in hand where one is handled, and a task's epochs are epochs *)
(* of its channel.                                                         *)
TaskOK(l) ==
  /\ task[l].at \in {"audio", "video", "frame"} => task[l].hand \in Messages
  /\ task[l].epoch <= resync_epoch
  /\ task[l].timeline <= task[l].epoch

TypeInv ==
  /\ PublisherTypes
  /\ ListenerTypes
  /\ \A l \in Listeners : TaskOK(l)
-----------------------------------------------------------------------------
(* Sequences.                                                              *)

LEMMA TailFacts ==
  ASSUME NEW S, NEW s \in Seq(S), s # <<>>
  PROVE  /\ Len(s) \in Nat \ {0}
         /\ Head(s) = s[1] /\ Head(s) \in S
         /\ Tail(s) \in Seq(S)
         /\ Len(Tail(s)) = Len(s) - 1
         /\ \A n \in 1 .. Len(s) - 1 : Tail(s)[n] = s[n + 1]
<1>1. Len(s) \in Nat \ {0}
  BY EmptySeq
<1>2. Head(s) = s[1]
  BY <1>1
<1>3. /\ Head(s) \in S /\ Tail(s) \in Seq(S) /\ Len(Tail(s)) = Len(s) - 1
      /\ \A n \in 1 .. Len(Tail(s)) : Tail(s)[n] = s[n + 1]
  BY HeadTailProperties
<1>4. QED
  BY <1>1, <1>2, <1>3

LEMMA LaggedIsASeq ==
  /\ Lagged \in Seq(Items) /\ Lagged # <<>> /\ Len(Lagged) = 1
  /\ Lagged[1] = LagMark /\ Head(Lagged) = LagMark /\ Tail(Lagged) = <<>>
  BY DEF Lagged, LagMark, Items

(* broadcast::Sender::send keeps a receiver within its buffer.             *)
LEMMA ReceivedType ==
  ASSUME NEW rx \in Seq(Items), Bounded(rx), NEW m \in Messages
  PROVE  Received(rx, m) \in Seq(Items) /\ Bounded(Received(rx, m))
<1>1. CASE rx = Lagged \/ Len(rx) = Buffer
  BY <1>1, LaggedIsASeq DEF Received, Bounded
<1>2. CASE ~(rx = Lagged \/ Len(rx) = Buffer)
  <2>1. Received(rx, m) = Append(rx, m) /\ m \in Items
    BY <1>2 DEF Received, Items
  <2>2. rx \in Seq(Messages) /\ Len(rx) < Buffer
    <3>1. rx \in Seq(Messages) /\ Len(rx) <= Buffer /\ Len(rx) # Buffer
      BY <1>2 DEF Bounded
    <3>2. Len(rx) \in Nat
      BY <3>1, LenProperties
    <3>3. QED
      BY <3>1, <3>2, RelayAssumption
  <2>3. /\ Append(rx, m) \in Seq(Items)
        /\ Append(rx, m) \in Seq(Messages) /\ Len(Append(rx, m)) = Len(rx) + 1
    BY <2>1, <2>2, AppendProperties
  <2>4. QED
    BY <2>1, <2>2, <2>3, RelayAssumption, LenProperties DEF Bounded
<1>3. QED
  BY <1>1, <1>2

LEMMA EmptyBounded == <<>> \in Seq(Items) /\ Bounded(<<>>) /\ Len(<<>>) = 0
  BY RelayAssumption DEF Bounded

LEMMA TailBounded ==
  ASSUME NEW rx \in Seq(Items), Bounded(rx), rx # <<>>
  PROVE  /\ Tail(rx) \in Seq(Items) /\ Bounded(Tail(rx))
         /\ Head(rx) = rx[1] /\ Head(rx) \in Items
         /\ rx # Lagged => Head(rx) \in Messages
<1>1. Tail(rx) \in Seq(Items) /\ Head(rx) = rx[1] /\ Head(rx) \in Items
  BY TailFacts
<1>2. CASE rx = Lagged
  <2>1. Tail(rx) = <<>> /\ <<>> \in Seq(Messages) /\ Len(<<>>) = 0
    BY <1>2, LaggedIsASeq
  <2>2. Bounded(Tail(rx))
    BY <2>1, EmptyBounded
  <2>3. QED
    BY <1>1, <1>2, <2>2
<1>3. CASE rx # Lagged
  <2>1. rx \in Seq(Messages) /\ Len(rx) <= Buffer
    BY <1>3 DEF Bounded
  <2>2. Tail(rx) \in Seq(Messages) /\ Len(Tail(rx)) = Len(rx) - 1 /\ Head(rx) \in Messages
    BY <2>1, TailFacts
  <2>3. QED
    BY <1>1, <2>1, <2>2, RelayAssumption, LenProperties DEF Bounded
<1>4. QED
  BY <1>2, <1>3
-----------------------------------------------------------------------------
LEMMA OpsTypes ==
  /\ StartOps \in Seq(Ops) /\ LeaveOps \in Seq(Ops)
  /\ \A input \in Controls : ControlOps[input] \in Seq(Ops)
  /\ <<>> \in Seq(Ops) /\ <<"free">> \in Seq(Ops) /\ <<"wake_video">> \in Seq(Ops)
  /\ <<"audio">> \in Seq(Ops) /\ <<"wake_video", "audio">> \in Seq(Ops)
  /\ \A kind \in {"key", "delta"} : <<"swap", kind>> \in Seq(Ops)
  BY DEF StartOps, LeaveOps, ControlOps, Controls, Ops

LEMMA TypeInit == Init => TypeInv
<1> SUFFICES ASSUME Init PROVE TypeInv
  OBVIOUS
<1>1. PublisherTypes
  <2>1. todo \in [Publishers -> Seq(Ops)]
    BY OpsTypes DEF Init
  <2>2. commands \in 0 .. MaxCommands
    BY RelayAssumption DEF Init
  <2>3. QED
    BY <2>1, <2>2 DEF Init, PublisherTypes
<1>2. NoTask \in Task
  BY DEF NoTask, Task, Places
<1>3. ListenerTypes
  BY <1>2, EmptyBounded DEF Init, ListenerTypes
<1>4. \A l \in Listeners : TaskOK(l)
  BY DEF Init, TaskOK, NoTask
<1>5. QED
  BY <1>1, <1>3, <1>4 DEF TypeInv

(* Nothing a listener does touches the channel or a publisher, and one     *)
(* listener's step leaves the others alone.                                *)
ListenerStep(l) ==
  \/ Setup(l) \/ Play(l) \/ Turn(l) \/ End(l)
  \/ TakeAudio(l) \/ TakeVideo(l) \/ Silence(l) \/ Report(l)

PublisherStep(p) ==
  \/ Admit(p) \/ Refuse(p) \/ Start(p) \/ Leave(p)
  \/ Control(p) \/ AudioFrame(p) \/ VideoFrame(p) \/ Operate(p)

LEMMA PublisherTypesStep ==
  ASSUME PublisherTypes, NEW p \in Publishers, PublisherStep(p)
  PROVE  PublisherTypes'
<1> USE OpsTypes DEF PublisherTypes, channel
<1>1. CASE Admit(p)
  BY <1>1 DEF Admit, Enter
<1>2. CASE Refuse(p) \/ Start(p) \/ Leave(p)
  BY <1>2 DEF Refuse, Start, Leave, Enter, Begin
<1>3. ASSUME NEW input, NEW ops \in Seq(Ops), Command(p, input, ops)
      PROVE  /\ commands' \in 0 .. MaxCommands /\ todo' \in [Publishers -> Seq(Ops)]
             /\ UNCHANGED <<streamer, video_active, resync_epoch, phase>>
  BY <1>3, RelayAssumption DEF Command, Begin
<1>4. CASE Control(p)
  <2>1. PICK input \in Controls : Command(p, input, ControlOps[input])
    BY <1>4 DEF Control
  <2>2. QED
    BY <1>3, <1>4, <2>1 DEF Control
<1>5. CASE AudioFrame(p)
  <2>1. PICK ops \in Seq(Ops) : Command(p, "audio", ops)
    BY <1>5 DEF AudioFrame
  <2>2. QED
    BY <1>3, <1>5, <2>1 DEF AudioFrame
<1>6. CASE VideoFrame(p)
  <2>1. PICK kind \in {"key", "delta"} : Command(p, kind, <<"swap", kind>>)
    BY <1>6 DEF VideoFrame
  <2>2. QED
    BY <1>3, <1>6, <2>1 DEF VideoFrame
<1>7. CASE Operate(p)
  <2>1. todo[p] # <<>> => Tail(todo[p]) \in Seq(Ops)
    BY TailFacts
  <2>2. ASSUME NEW ops \in Seq(Ops), todo[p] # <<>>, Then(p, ops)
        PROVE  todo' \in [Publishers -> Seq(Ops)]
    <3>1. ops \o Tail(todo[p]) \in Seq(Ops)
      BY <2>1, <2>2, ConcatProperties
    <3>2. QED
      BY <2>2, <3>1 DEF Then
  <2>3. CASE Swap(p)
    <3>1. PICK ops \in Seq(Ops) : Then(p, ops)
      BY <2>3 DEF Swap
    <3>2. QED
      BY <1>7, <2>2, <2>3, <3>1 DEF Operate, Swap, Due
  <2>4. CASE ~Swap(p)
    <3>1. todo[p] # <<>> /\ Then(p, <<>>)
      BY <1>7, <2>4
      DEF Operate, Free, Activate, Deactivate, Resync, SendAudio, SendVideo, Due
    <3>2. streamer' \in BOOLEAN /\ video_active' \in BOOLEAN
      BY <1>7, <2>4, Zenon
      DEF Operate, Free, Activate, Deactivate, Resync, SendAudio, SendVideo
    <3>3. resync_epoch' = resync_epoch \/ resync_epoch' = resync_epoch + 1
      BY <1>7, <2>4, Zenon
      DEF Operate, Free, Activate, Deactivate, Resync, SendAudio, SendVideo
    <3>4. resync_epoch' \in Nat
      BY <3>3
    <3>5. todo' \in [Publishers -> Seq(Ops)]
      BY <2>2, <3>1
    <3>6. UNCHANGED <<phase, framed, commands>>
      BY <1>7 DEF Operate
    <3>7. QED
      BY <3>2, <3>4, <3>5, <3>6, Zenon
  <2>5. QED
    BY <2>3, <2>4
<1>8. QED
  BY <1>1, <1>2, <1>4, <1>5, <1>6, <1>7 DEF PublisherStep

(* What a publisher's step does to the listeners: nothing, or one message  *)
(* to every receiver of one ring; and the epoch only grows.                *)
LEMMA PublisherSends ==
  ASSUME NEW p \in Publishers, PublisherStep(p)
  PROVE  /\ UNCHANGED <<task, shown, gap, resynced>>
         /\ resync_epoch' = resync_epoch \/ resync_epoch' = resync_epoch + 1
         /\ \/ UNCHANGED <<audio_rx, video_rx>>
            \/ Operate(p) /\ SendAudio(p)
            \/ Operate(p) /\ SendVideo(p)
<1>1. CASE Operate(p)
  BY <1>1 DEF Operate, Free, Activate, Deactivate, Swap, Resync, SendAudio, SendVideo,
              history, receivers, channel
<1>2. CASE ~Operate(p)
  BY <1>2 DEF PublisherStep, Admit, Refuse, Start, Leave, Control, AudioFrame, VideoFrame,
              Command, history, receivers, channel
<1>3. QED
  BY <1>1, <1>2

LEMMA PublisherKeepsListenerTypes ==
  ASSUME TypeInv, NEW p \in Publishers, PublisherStep(p)
  PROVE  ListenerTypes' /\ \A l \in Listeners : TaskOK(l)'
<1> USE DEF TypeInv, ListenerTypes
<1>1. \A l \in Listeners : TaskOK(l)'
  <2>1. task' = task /\ (resync_epoch' = resync_epoch \/ resync_epoch' = resync_epoch + 1)
    BY PublisherSends, Zenon
  <2>2. \A l \in Listeners : task[l].epoch \in Nat
    BY DEF Task
  <2>3. QED
    BY <2>1, <2>2 DEF TaskOK, PublisherTypes
<1>2. CASE UNCHANGED <<audio_rx, video_rx>>
  BY <1>1, <1>2, PublisherSends DEF Bounded
<1>3. CASE SendAudio(p)
  <2>1. PICK kind \in {"wake", "audio"} :
          audio_rx' = [l \in Listeners |->
            IF SubscribedAudio(l) THEN Received(audio_rx[l], [kind |-> kind, by |-> p])
                                  ELSE audio_rx[l]]
    BY <1>3 DEF SendAudio
  <2>2. [kind |-> kind, by |-> p] \in Messages
    BY DEF Messages
  <2>3. \A l \in Listeners : audio_rx'[l] \in Seq(Items) /\ Bounded(audio_rx'[l])
    BY <2>1, <2>2, ReceivedType
  <2>4. audio_rx' \in [Listeners -> Seq(Items)] /\ UNCHANGED video_rx
    BY <1>3, <2>1, <2>3 DEF SendAudio
  <2>5. QED
    BY <1>1, <2>3, <2>4, PublisherSends DEF Bounded
<1>4. CASE SendVideo(p)
  <2>1. PICK kind \in {"wake", "key", "delta"} :
          video_rx' = [l \in Listeners |->
            IF SubscribedVideo(l) THEN Received(video_rx[l], [kind |-> kind, by |-> p])
                                  ELSE video_rx[l]]
    BY <1>4 DEF SendVideo
  <2>2. [kind |-> kind, by |-> p] \in Messages
    BY DEF Messages
  <2>3. \A l \in Listeners : video_rx'[l] \in Seq(Items) /\ Bounded(video_rx'[l])
    BY <2>1, <2>2, ReceivedType
  <2>4. video_rx' \in [Listeners -> Seq(Items)] /\ UNCHANGED audio_rx
    BY <1>4, <2>1, <2>3 DEF SendVideo
  <2>5. QED
    BY <1>1, <2>3, <2>4, PublisherSends DEF Bounded
<1>5. QED
  BY <1>2, <1>3, <1>4, PublisherSends

(* Facts on the task record of the listener that moves.                    *)
LEMMA TaskParts ==
  ASSUME TypeInv, NEW l \in Listeners
  PROVE  /\ task[l] \in Task /\ NoTask \in Task
         /\ task[l].at \in Places /\ task[l].epoch \in Nat /\ task[l].timeline \in Nat
         /\ task[l].epoch <= resync_epoch /\ task[l].timeline <= task[l].epoch
         /\ resync_epoch \in Nat
         /\ \A t : Set(l, t) => /\ task'[l] = t
                                /\ \A k \in Listeners \ {l} : task'[k] = task[k]
  BY DEF TypeInv, PublisherTypes, ListenerTypes, TaskOK, Task, NoTask, Places, Set

LEMMA OthersKept ==
  ASSUME TypeInv, NEW l \in Listeners, ListenerStep(l)
  PROVE  /\ UNCHANGED <<channel, publishers>>
         /\ \A k \in Listeners \ {l} :
              UNCHANGED <<task[k], audio_rx[k], video_rx[k], shown[k], gap[k], resynced[k]>>
<1> USE DEF TypeInv, ListenerTypes, Set, Go, Outside, receivers, history
<1>1. CASE Setup(l) \/ Play(l) \/ LoadEpoch(l) \/ Top(l) \/ SyncStreamer(l) \/ SyncVideo(l)
           \/ Arm(l) \/ HandleAudio(l) \/ Silence(l) \/ Report(l)
  BY <1>1 DEF Setup, Play, LoadEpoch, Top, SyncStreamer, SyncVideo, Arm, HandleAudio,
              Silence, Report
<1>2. CASE ResyncAudio(l) \/ DropBacklog(l) \/ TakeAudio(l)
  BY <1>2 DEF ResyncAudio, DropBacklog, TakeAudio, SubscribeAudio
<1>3. CASE ResyncVideo(l) \/ TakeVideo(l)
  BY <1>3 DEF ResyncVideo, TakeVideo, SubscribeVideo
<1>4. CASE CheckStreamer(l) \/ Skip(l) \/ Expire(l) \/ HandleVideo(l)
  BY <1>4 DEF CheckStreamer, Skip, Expire, HandleVideo
<1>5. CASE End(l)
  BY <1>5 DEF End
<1>6. QED
  BY <1>1, <1>2, <1>3, <1>4, <1>5 DEF ListenerStep, Turn

(* A task record as a step may leave it.                                   *)
GoodTask(t) ==
  /\ t \in Task
  /\ t.at \in {"audio", "video", "frame"} => t.hand \in Messages
  /\ t.epoch <= resync_epoch
  /\ t.timeline <= t.epoch

LEMMA TaskChanged ==
  ASSUME TypeInv, NEW l \in Listeners, UNCHANGED resync_epoch,
         NEW t, GoodTask(t), Set(l, t)
  PROVE  task' \in [Listeners -> Task] /\ \A k \in Listeners : TaskOK(k)'
<1>1. task'[l] = t /\ \A k \in Listeners \ {l} : task'[k] = task[k]
  BY DEF TypeInv, ListenerTypes, Set
<1>2. TaskOK(l)'
  BY <1>1 DEF TaskOK, GoodTask
<1>3. \A k \in Listeners \ {l} : TaskOK(k)'
  BY <1>1 DEF TypeInv, TaskOK
<1>4. task' \in [Listeners -> Task]
  BY DEF TypeInv, ListenerTypes, Set, GoodTask
<1>5. QED
  BY <1>2, <1>3, <1>4

LEMMA ReceiverChanged ==
  ASSUME TypeInv, NEW l \in Listeners, NEW rx \in Seq(Items), Bounded(rx)
  PROVE  /\ audio_rx' = [audio_rx EXCEPT ![l] = rx]
              => /\ audio_rx' \in [Listeners -> Seq(Items)]
                 /\ \A k \in Listeners : Bounded(audio_rx'[k])
         /\ video_rx' = [video_rx EXCEPT ![l] = rx]
              => /\ video_rx' \in [Listeners -> Seq(Items)]
                 /\ \A k \in Listeners : Bounded(video_rx'[k])
  BY DEF TypeInv, ListenerTypes

(* What a listener's step makes of its task record.                        *)
LEMMA TaskSteps ==
  ASSUME TypeInv, NEW l \in Listeners, ListenerStep(l)
  PROVE  \E t : GoodTask(t) /\ Set(l, t)
<1>a. /\ task[l] \in Task /\ GoodTask(task[l]) /\ resync_epoch \in Nat /\ NoTask \in Task
      /\ task[l].epoch \in Nat /\ task[l].timeline \in Nat
  BY TaskParts DEF GoodTask, TypeInv, TaskOK
<1>b. \A x \in Places \ {"audio", "video", "frame"} : GoodTask([task[l] EXCEPT !.at = x])
  BY <1>a DEF GoodTask, Task
<1> USE DEF Go, Places
<1>1. CASE Setup(l) \/ Play(l) \/ ResyncAudio(l) \/ DropBacklog(l) \/ Report(l)
  BY <1>1, <1>b DEF Setup, Play, ResyncAudio, DropBacklog, Report
<1>2. CASE LoadEpoch(l)
  <2> DEFINE t == [task[l] EXCEPT !.at = "top", !.epoch = resync_epoch]
  <2>1. /\ t \in Task /\ t.at = "top" /\ t.epoch = resync_epoch
        /\ t.timeline = task[l].timeline
    BY <1>a DEF Task
  <2>2. GoodTask(t)
    BY <1>a, <2>1 DEF GoodTask
  <2>3. QED
    BY <1>2, <2>2 DEF LoadEpoch
<1>3. CASE Top(l)
  <2>1. ASSUME NEW x \in {"backlog", "resync_audio"}
        PROVE  GoodTask([task[l] EXCEPT !.epoch = resync_epoch, !.at = x])
    <3> DEFINE t == [task[l] EXCEPT !.epoch = resync_epoch, !.at = x]
    <3>1. /\ t \in Task /\ t.at = x /\ t.epoch = resync_epoch
          /\ t.timeline = task[l].timeline
      BY <1>a, <2>1 DEF Task
    <3>2. QED
      BY <1>a, <2>1, <3>1 DEF GoodTask
  <2>2. QED
    BY <1>3, <2>1 DEF Top
<1>4. CASE ResyncVideo(l)
  <2>1. GoodTask([AwaitKeyframe(task[l]) EXCEPT !.at = "backlog", !.last_state = None])
    BY <1>a DEF GoodTask, Task, AwaitKeyframe
  <2>2. QED
    BY <1>4, <2>1 DEF ResyncVideo
<1>5. ASSUME NEW x \in Pictures PROVE GoodTask(Show(l, x))
  <2>1. CASE task[l].last_state = x
    BY <1>b, <2>1 DEF Show
  <2>2. CASE task[l].last_state # x
    <3>1. \A b \in BOOLEAN :
            GoodTask([AwaitKeyframe(task[l]) EXCEPT !.at = "arm", !.last_state = x,
                        !.reporting = b])
      BY <1>a DEF GoodTask, Task, AwaitKeyframe
    <3>2. task[l].reporting \in BOOLEAN
      BY <1>a DEF Task
    <3>3. QED
      BY <2>2, <3>1, <3>2 DEF Show, AwaitKeyframe
  <2>3. QED
    BY <2>1, <2>2
<1>6. CASE SyncStreamer(l)
  BY <1>6, <1>5, <1>b DEF SyncStreamer, Pictures
<1>7. CASE SyncVideo(l)
  BY <1>7, <1>5 DEF SyncVideo, Pictures
<1>8. CASE Arm(l)
  <2>1. GoodTask([task[l] EXCEPT !.at = "select", !.streamer_active = streamer])
    BY <1>a DEF GoodTask, Task, TypeInv, PublisherTypes
  <2>2. QED
    BY <1>8, <2>1 DEF Arm
<1>9. CASE TakeAudio(l)
  <2>1. Head(audio_rx[l]) \in Items
    BY <1>9, TailFacts DEF TakeAudio, TypeInv, ListenerTypes
  <2>2. ASSUME Head(audio_rx[l]).kind = "audio"
        PROVE  GoodTask([task[l] EXCEPT !.at = "audio", !.hand = Head(audio_rx[l])])
    <3>1. Head(audio_rx[l]) \in Messages
      BY <2>1, <2>2 DEF Items, LagMark
    <3>2. QED
      BY <1>a, <3>1 DEF GoodTask, Task
  <2>3. QED
    BY <1>9, <1>b, <2>2 DEF TakeAudio
<1>10. CASE TakeVideo(l)
  <2>1. Head(video_rx[l]) \in Items
    BY <1>10, TailFacts DEF TakeVideo, TypeInv, ListenerTypes
  <2>2. CASE Head(video_rx[l]).kind \in {"wake", "lagged"}
    <3>1. GoodTask([AwaitKeyframe(task[l]) EXCEPT !.at = "top", !.last_state = None])
      BY <1>a DEF GoodTask, Task, AwaitKeyframe
    <3>2. GoodTask([AwaitKeyframe(task[l]) EXCEPT !.at = "top"])
      BY <1>a DEF GoodTask, Task, AwaitKeyframe
    <3>3. QED
      BY <1>10, <2>2, <3>1, <3>2 DEF TakeVideo
  <2>3. CASE Head(video_rx[l]).kind \notin {"wake", "lagged"}
    <3>1. Head(video_rx[l]) \in Messages
      BY <2>1, <2>3 DEF Items, LagMark
    <3>2. GoodTask([task[l] EXCEPT !.at = "video", !.hand = Head(video_rx[l])])
      BY <1>a, <3>1 DEF GoodTask, Task
    <3>3. QED
      BY <1>10, <2>3, <3>2 DEF TakeVideo
  <2>4. QED
    BY <2>2, <2>3
<1>11. CASE Silence(l)
  <2>1. GoodTask([task[l] EXCEPT !.at = "top", !.reporting = TRUE])
    BY <1>a DEF GoodTask, Task
  <2>2. QED
    BY <1>11, <2>1 DEF Silence
<1>12. GoodTask(Put(task[l])) /\ GoodTask(AwaitKeyframe(Put(task[l])))
  <2>1. GoodTask(Put(task[l]))
    BY <1>a DEF GoodTask, Task, Put
  <2>2. \A t : GoodTask(t) => GoodTask(AwaitKeyframe(t))
    BY DEF GoodTask, Task, AwaitKeyframe
  <2>3. QED
    BY <2>1, <2>2
<1>13. ASSUME NEW t \in Task, GoodTask(t), t.hand \in Messages
       PROVE  GoodTask(Sent(t)) /\ GoodTask([Sent(t) EXCEPT !.seen_keyframe = TRUE])
  <2>1. t.hand.by \in Publishers
    BY <1>13 DEF Messages
  <2>2. Mapped(t) \in Task /\ Mapped(t).epoch = t.epoch /\ Mapped(t).timeline = t.epoch
    BY <1>13, <2>1 DEF Mapped, Task
  <2>3. /\ Sent(t) \in Task /\ Sent(t).at = "top"
        /\ Sent(t).epoch = t.epoch /\ Sent(t).timeline = t.epoch
    BY <2>2 DEF Sent, Task
  <2> DEFINE u == [Sent(t) EXCEPT !.seen_keyframe = TRUE]
  <2>4. u \in Task /\ u.at = "top" /\ u.epoch = t.epoch /\ u.timeline = t.epoch
    BY <2>3 DEF Task
  <2>5. t.epoch \in Nat
    BY DEF Task
  <2>6. QED
    BY <1>13, <2>3, <2>4, <2>5 DEF GoodTask
<1>14. CASE HandleAudio(l)
  <2>1. task[l].hand \in Messages
    BY <1>14 DEF HandleAudio, At, TypeInv, TaskOK
  <2>2. QED
    BY <1>14, <1>a, <1>12, <1>13, <2>1 DEF HandleAudio
<1>15. CASE CheckStreamer(l)
  <2>1. GoodTask([task[l] EXCEPT !.at = "frame"])
    BY <1>15, <1>a DEF CheckStreamer, At, GoodTask, Task
  <2>2. QED
    BY <1>15, <1>12, <2>1 DEF CheckStreamer
<1>16. CASE Skip(l) \/ Expire(l)
  BY <1>16, <1>12 DEF Skip, Expire
<1>17. CASE HandleVideo(l)
  <2> DEFINE t == [task[l] EXCEPT !.last_state = "Video"]
  <2>1. task[l].hand \in Messages
    BY <1>17 DEF HandleVideo, At, TypeInv, TaskOK
  <2>2. t \in Task /\ GoodTask(t) /\ t.hand \in Messages
    BY <1>a, <2>1 DEF GoodTask, Task, Pictures
  <2>3. GoodTask(AwaitKeyframe(Put(t)))
    BY <1>a, <2>1 DEF GoodTask, Task, Put, AwaitKeyframe, Pictures
  <2>4. GoodTask([Sent(t) EXCEPT !.seen_keyframe = TRUE])
    BY <1>13, <2>2
  <2>5. QED
    BY <1>17, <2>3, <2>4 DEF HandleVideo
<1>18. CASE End(l)
  <2> DEFINE t == [NoTask EXCEPT !.at = "ended"]
  <2>1. t \in Task /\ t.at = "ended" /\ t.epoch = 0 /\ t.timeline = 0
    BY <1>a DEF Task, NoTask
  <2>2. GoodTask(t)
    BY <1>a, <2>1 DEF GoodTask
  <2>3. QED
    BY <1>18, <2>2 DEF End
<1>19. QED
  BY <1>1, <1>2, <1>3, <1>4, <1>6, <1>7, <1>8, <1>9, <1>10, <1>11, <1>14, <1>15, <1>16,
     <1>17, <1>18
  DEF ListenerStep, Turn

LEMMA ListenerTypesStep ==
  ASSUME TypeInv, NEW l \in Listeners, ListenerStep(l)
  PROVE  TypeInv'
<1>1. UNCHANGED <<channel, publishers>>
  BY OthersKept
<1>2. task' \in [Listeners -> Task] /\ \A k \in Listeners : TaskOK(k)'
  BY <1>1, TaskSteps, TaskChanged DEF channel
<1>3. PublisherTypes'
  BY <1>1 DEF TypeInv, PublisherTypes, channel, publishers
<1>a. audio_rx[l] \in Seq(Items) /\ Bounded(audio_rx[l])
      /\ video_rx[l] \in Seq(Items) /\ Bounded(video_rx[l])
  BY DEF TypeInv, ListenerTypes
<1>4. /\ audio_rx' \in [Listeners -> Seq(Items)]
      /\ \A k \in Listeners : Bounded(audio_rx'[k])
  <2>1. CASE UNCHANGED audio_rx
    BY <2>1 DEF TypeInv, ListenerTypes, Bounded
  <2>2. CASE audio_rx' = [audio_rx EXCEPT ![l] = <<>>]
    BY <2>2, EmptyBounded, ReceiverChanged
  <2>3. CASE TakeAudio(l)
    BY <1>a, <2>3, TailBounded, ReceiverChanged DEF TakeAudio
  <2>4. QED
    BY <2>1, <2>2, <2>3
    DEF ListenerStep, Turn, Setup, Play, LoadEpoch, Top, ResyncAudio, ResyncVideo,
        DropBacklog, SyncStreamer, SyncVideo, Arm, TakeVideo, Silence, Report, HandleAudio,
        CheckStreamer, Skip, Expire, HandleVideo, End, SubscribeAudio, receivers
<1>5. /\ video_rx' \in [Listeners -> Seq(Items)]
      /\ \A k \in Listeners : Bounded(video_rx'[k])
  <2>1. CASE UNCHANGED video_rx
    BY <2>1 DEF TypeInv, ListenerTypes, Bounded
  <2>2. CASE video_rx' = [video_rx EXCEPT ![l] = <<>>]
    BY <2>2, EmptyBounded, ReceiverChanged
  <2>3. CASE TakeVideo(l)
    BY <1>a, <2>3, TailBounded, ReceiverChanged DEF TakeVideo
  <2>4. QED
    BY <2>1, <2>2, <2>3
    DEF ListenerStep, Turn, Setup, Play, LoadEpoch, Top, ResyncAudio, ResyncVideo,
        DropBacklog, SyncStreamer, SyncVideo, Arm, TakeAudio, Silence, Report, HandleAudio,
        CheckStreamer, Skip, Expire, HandleVideo, End, SubscribeVideo, receivers
<1>6. /\ shown' \in [Listeners -> Publishers \cup {None}]
      /\ gap' \in [Listeners -> BOOLEAN] /\ resynced' \in [Listeners -> BOOLEAN]
  <2>1. CASE HandleVideo(l)
    <3>1. task[l].hand.by \in Publishers
      BY <2>1 DEF HandleVideo, At, TypeInv, TaskOK, Messages
    <3>2. shown' = shown \/ shown' = [shown EXCEPT ![l] = task[l].hand.by]
      BY <2>1 DEF HandleVideo
    <3>3. \E b \in BOOLEAN : gap' = [gap EXCEPT ![l] = b]
      BY <2>1 DEF HandleVideo
    <3>4. UNCHANGED resynced
      BY <2>1 DEF HandleVideo
    <3>5. QED
      BY <3>1, <3>2, <3>3, <3>4 DEF TypeInv, ListenerTypes
  <2>2. CASE UNCHANGED history
    BY <2>2 DEF TypeInv, ListenerTypes, history
  <2>3. CASE ResyncVideo(l) \/ TakeVideo(l) \/ CheckStreamer(l) \/ Skip(l) \/ Expire(l) \/ End(l)
    BY <2>3 DEF ResyncVideo, TakeVideo, CheckStreamer, Skip, Expire, End, SubscribeVideo,
                TypeInv, ListenerTypes
  <2>4. QED
    BY <2>1, <2>2, <2>3
    DEF ListenerStep, Turn, Setup, Play, LoadEpoch, Top, ResyncAudio, DropBacklog,
        SyncStreamer, SyncVideo, Arm, TakeAudio, Silence, Report, HandleAudio, history
<1>7. QED
  BY <1>2, <1>3, <1>4, <1>5, <1>6 DEF TypeInv, ListenerTypes

LEMMA TypeStep == TypeInv /\ [Next]_vars => TypeInv'
<1> SUFFICES ASSUME TypeInv, [Next]_vars PROVE TypeInv'
  OBVIOUS
<1>1. ASSUME NEW p \in Publishers, PublisherStep(p) PROVE TypeInv'
  BY <1>1, PublisherTypesStep, PublisherKeepsListenerTypes DEF TypeInv
<1>2. ASSUME NEW l \in Listeners, ListenerStep(l) PROVE TypeInv'
  BY <1>2, ListenerTypesStep
<1>3. CASE UNCHANGED vars
  BY <1>3 DEF vars, channel, publishers, receivers, history, TypeInv, PublisherTypes,
              ListenerTypes, TaskOK, Bounded
<1>4. QED
  BY <1>1, <1>2, <1>3 DEF Next, PublisherStep, ListenerStep
-----------------------------------------------------------------------------
(* Publishers.  What a session still has to do says what it may have done. *)

FrameOps == {"audio", "key", "delta"}

Has(s, op) == \E n \in 1 .. Len(s) : s[n] = op

(* A session that left does only what LeaveOps says, and gives the flag    *)
(* back first; a deactivation is followed by its resync; a frame is the    *)
(* last operation of a command that does not resync.                       *)
TodoOK(where, s) ==
  /\ where \in {"new", "counting"} => s = <<>>
  /\ where = "live" => ~Has(s, "free")
  /\ where = "gone" =>
       \A n \in 1 .. Len(s) :
         /\ s[n] \in {"free", "deactivate", "resync", "wake_audio", "wake_video"}
         /\ s[n] = "free" => n = 1
  /\ \A n \in 1 .. Len(s) : s[n] = "deactivate" => n < Len(s) /\ s[n + 1] = "resync"
  /\ \A n \in 1 .. Len(s) : s[n] \in FrameOps => n = Len(s) /\ ~Has(s, "resync")

Holds(p) == phase[p] \in {"counting", "live"} \/ Has(todo[p], "free")

(* The flag is that of one session, from its admission until it frees it.  *)
FlagInv ==
  /\ streamer <=> \E p \in Publishers : Holds(p)
  /\ \A p, q \in Publishers : Holds(p) /\ Holds(q) => p = q

(* The video is active only while a session is live or has yet to take its *)
(* activation back.                                                        *)
ActiveInv ==
  video_active => \E p \in Publishers : phase[p] = "live" \/ Has(todo[p], "deactivate")

TodoInv == \A p \in Publishers : TodoOK(phase[p], todo[p])

PublisherInv == TodoInv /\ FlagInv /\ ActiveInv

(* A todo that ends with the wake-up of the video receivers.               *)
Wakes(s) == s # <<>> /\ s[Len(s)] = "wake_video"

LEMMA EmptyLen ==
  /\ Len(<<>>) = 0
  /\ \A s \in Seq(Ops) : Len(s) \in Nat /\ (s = <<>> <=> Len(s) = 0)
<1>1. ASSUME NEW s \in Seq(Ops) PROVE Len(s) \in Nat /\ (s = <<>> <=> Len(s) = 0)
  BY EmptySeq, LenProperties
<1>2. QED
  BY <1>1

LEMMA TailOps ==
  ASSUME NEW s \in Seq(Ops), s # <<>>, NEW t \in Seq(Ops), Len(t) = Len(s) - 1,
         \A n \in 1 .. Len(s) - 1 : t[n] = s[n + 1]
  PROVE  /\ \A where : TodoOK(where, s) => TodoOK(where, t)
         /\ \A op : Has(t, op) => Has(s, op)
         /\ \A op : op # s[1] => (Has(t, op) <=> Has(s, op))
         /\ s[1] # "wake_video" => (Wakes(t) <=> Wakes(s))
<1>1. /\ Len(s) \in Nat \ {0} /\ Len(t) = Len(s) - 1
      /\ \A n \in 1 .. Len(s) - 1 : t[n] = s[n + 1]
  BY EmptyLen
<1>2. \A op : Has(t, op) => Has(s, op)
  BY <1>1 DEF Has
<1>3. ASSUME NEW op, op # s[1], Has(s, op) PROVE Has(t, op)
  <2>1. PICK n \in 1 .. Len(s) : s[n] = op
    BY <1>3 DEF Has
  <2>2. n - 1 \in 1 .. Len(s) - 1 /\ t[n - 1] = s[n]
    BY <1>1, <1>3, <2>1
  <2>3. QED
    BY <1>1, <2>1, <2>2 DEF Has
<1>4. ASSUME NEW where, TodoOK(where, s) PROVE TodoOK(where, t)
  <2>1. where \notin {"new", "counting"} /\ (where = "live" => ~Has(t, "free"))
    BY <1>2, <1>4 DEF TodoOK
  <2>2. \A n \in 1 .. Len(s) : s[n] = "deactivate" => n < Len(s) /\ s[n + 1] = "resync"
    BY <1>4 DEF TodoOK
  <2>3. \A n \in 1 .. Len(s) : s[n] \in FrameOps => n = Len(s) /\ ~Has(s, "resync")
    BY <1>4 DEF TodoOK
  <2>4. ASSUME NEW n \in 1 .. Len(t)
        PROVE  /\ n + 1 \in 1 .. Len(s) /\ t[n] = s[n + 1]
               /\ n < Len(t) => t[n + 1] = s[n + 1 + 1]
    BY <1>1, <2>4
  <2>5. \A n \in 1 .. Len(t) :
          t[n] = "deactivate" => n < Len(t) /\ t[n + 1] = "resync"
    <3> TAKE n \in 1 .. Len(t)
    <3> HAVE t[n] = "deactivate"
    <3>1. n + 1 < Len(s) /\ s[n + 1 + 1] = "resync"
      BY <2>2, <2>4
    <3>2. n < Len(t)
      BY <1>1, <3>1
    <3>3. QED
      BY <2>4, <3>1, <3>2
  <2>6. \A n \in 1 .. Len(t) :
          t[n] \in FrameOps => n = Len(t) /\ ~Has(t, "resync")
    <3> TAKE n \in 1 .. Len(t)
    <3> HAVE t[n] \in FrameOps
    <3>1. n + 1 = Len(s) /\ ~Has(s, "resync")
      BY <2>3, <2>4
    <3>2. QED
      BY <1>1, <1>2, <3>1
  <2>7. ASSUME where = "gone", NEW n \in 1 .. Len(t)
        PROVE  /\ t[n] \in {"free", "deactivate", "resync", "wake_audio", "wake_video"}
               /\ t[n] # "free"
    <3>1. /\ s[n + 1] \in {"free", "deactivate", "resync", "wake_audio", "wake_video"}
          /\ s[n + 1] = "free" => n + 1 = 1
      BY <1>4, <2>4, <2>7 DEF TodoOK
    <3>2. QED
      BY <2>4, <3>1, <1>1
  <2>8. QED
    BY <2>1, <2>5, <2>6, <2>7 DEF TodoOK
<1>5. ASSUME s[1] # "wake_video" PROVE Wakes(t) <=> Wakes(s)
  <2>1. CASE Len(s) = 1
    <3>1. t = <<>>
      BY <1>1, <2>1, EmptyLen
    <3>2. QED
      BY <1>5, <2>1, <3>1 DEF Wakes
  <2>2. CASE Len(s) # 1
    <3>1. Len(s) - 1 \in 1 .. Len(s) - 1 /\ t[Len(s) - 1] = s[Len(s) - 1 + 1]
      BY <1>1, <2>2
    <3>2. t # <<>> /\ t[Len(t)] = s[Len(s)]
      BY <1>1, <2>2, <3>1, EmptyLen
    <3>3. QED
      BY <3>2 DEF Wakes
  <2>3. QED
    BY <2>1, <2>2
<1>6. QED
  BY <1>2, <1>3, <1>4, <1>5

(* A video frame that activates the video puts a wake-up before itself.    *)
LEMMA SwapIsExcept ==
  ASSUME NEW s \in Seq(Ops), s # <<>>
  PROVE  LET u == <<"wake_video">> \o Tail(s) IN
         /\ u \in Seq(Ops) /\ Len(u) = Len(s) /\ u[1] = "wake_video"
         /\ \A n \in 2 .. Len(s) : u[n] = s[n]
<1> DEFINE u == <<"wake_video">> \o Tail(s)
<1>1. /\ Len(s) \in Nat \ {0} /\ Len(Tail(s)) = Len(s) - 1 /\ Tail(s) \in Seq(Ops)
      /\ \A n \in 1 .. Len(s) - 1 : Tail(s)[n] = s[n + 1]
  BY TailFacts
<1>2. /\ <<"wake_video">> \in Seq(Ops) /\ Len(<<"wake_video">>) = 1
      /\ <<"wake_video">>[1] = "wake_video"
  BY OpsTypes
<1>3. /\ u \in Seq(Ops) /\ Len(u) = 1 + (Len(s) - 1)
      /\ \A n \in 1 .. 1 + (Len(s) - 1) :
           u[n] = IF n <= 1 THEN <<"wake_video">>[n] ELSE Tail(s)[n - 1]
  BY <1>1, <1>2, ConcatProperties
<1> HIDE DEF u
<1>4. ASSUME NEW n \in 2 .. Len(s) PROVE u[n] = s[n]
  <2>1. n - 1 \in 1 .. Len(s) - 1
    BY <1>1, <1>4
  <2>2. Tail(s)[n - 1] = s[n - 1 + 1]
    BY <1>1, <2>1
  <2>3. QED
    BY <1>1, <1>3, <1>4, <2>2
<1>5. u[1] = "wake_video"
  BY <1>1, <1>2, <1>3
<1>6. Len(u) = Len(s)
  BY <1>1, <1>3
<1>7. QED
  BY <1>3, <1>4, <1>5, <1>6 DEF u

LEMMA SwapOps ==
  ASSUME NEW s \in Seq(Ops), s # <<>>, s[1] = "swap",
         NEW u \in Seq(Ops), Len(u) = Len(s), u[1] = "wake_video",
         \A n \in 2 .. Len(s) : u[n] = s[n]
  PROVE  /\ \A where \in {"new", "counting", "live", "gone"} :
              TodoOK(where, s) => where = "live" /\ TodoOK("live", u)
         /\ \A op \in Ops \ {"swap", "wake_video"} : Has(u, op) <=> Has(s, op)
         /\ Wakes(s) => Wakes(u)
<1>1. Len(s) \in Nat \ {0} /\ \A n \in 1 .. Len(s) : n = 1 \/ n \in 2 .. Len(s)
  BY EmptyLen
<1>4. \A op \in Ops \ {"swap", "wake_video"} : Has(u, op) <=> Has(s, op)
  BY <1>1 DEF Has
<1>5. ASSUME NEW where, TodoOK(where, s), where \in {"new", "counting", "live", "gone"}
      PROVE  where = "live" /\ TodoOK("live", u)
  <2>1. where = "live"
    BY <1>1, <1>5 DEF TodoOK
  <2>2. ~Has(u, "free") /\ (Has(u, "resync") <=> Has(s, "resync"))
    BY <1>4, <1>5, <2>1 DEF TodoOK, Ops
  <2>3. /\ \A n \in 1 .. Len(s) : s[n] = "deactivate" => n < Len(s) /\ s[n + 1] = "resync"
        /\ \A n \in 1 .. Len(s) : s[n] \in FrameOps => n = Len(s) /\ ~Has(s, "resync")
    BY <1>5 DEF TodoOK
  <2>4. \A n \in 1 .. Len(u) : u[n] = "deactivate" => n < Len(u) /\ u[n + 1] = "resync"
    <3> TAKE n \in 1 .. Len(u)
    <3> HAVE u[n] = "deactivate"
    <3>1. n \in 2 .. Len(s) /\ u[n] = s[n]
      BY <1>1
    <3>2. n < Len(s) /\ s[n + 1] = "resync"
      BY <2>3, <3>1
    <3>3. QED
      BY <1>1, <3>1, <3>2
  <2>5. \A n \in 1 .. Len(u) : u[n] \in FrameOps => n = Len(u) /\ ~Has(u, "resync")
    <3> TAKE n \in 1 .. Len(u)
    <3> HAVE u[n] \in FrameOps
    <3>1. n \in 2 .. Len(s) /\ u[n] = s[n]
      BY <1>1 DEF FrameOps
    <3>2. QED
      BY <2>2, <2>3, <3>1
  <2>6. QED
    BY <2>1, <2>2, <2>4, <2>5 DEF TodoOK
<1>6. Wakes(s) => Wakes(u)
  BY <1>1, EmptyLen DEF Wakes
<1>7. QED
  BY <1>4, <1>5, <1>6

(* The sequences of operations a session begins.                           *)
LEMMA BegunOps ==
  /\ TodoOK("live", <<>>) /\ TodoOK("new", <<>>) /\ TodoOK("counting", <<>>)
  /\ ~Wakes(<<>>) /\ \A op : ~Has(<<>>, op)
  /\ TodoOK("live", StartOps) /\ Wakes(StartOps) /\ Has(StartOps, "resync")
  /\ TodoOK("gone", LeaveOps) /\ Has(LeaveOps, "free") /\ Has(LeaveOps, "deactivate")
  /\ TodoOK("gone", <<"free">>) /\ Has(<<"free">>, "free")
  /\ \A input \in Controls : TodoOK("live", ControlOps[input])
  /\ TodoOK("live", <<"audio">>) /\ TodoOK("live", <<"wake_video", "audio">>)
  /\ \A kind \in {"key", "delta"} : TodoOK("live", <<"swap", kind>>)
<1> USE DEF TodoOK, Has, Wakes, FrameOps
<1>1. /\ TodoOK("live", <<>>) /\ TodoOK("new", <<>>) /\ TodoOK("counting", <<>>)
      /\ ~Wakes(<<>>) /\ \A op : ~Has(<<>>, op)
  OBVIOUS
<1>2. TodoOK("live", StartOps) /\ Wakes(StartOps) /\ Has(StartOps, "resync")
  BY DEF StartOps
<1>3. TodoOK("gone", LeaveOps) /\ Has(LeaveOps, "free") /\ Has(LeaveOps, "deactivate")
  BY DEF LeaveOps
<1>4. TodoOK("gone", <<"free">>) /\ Has(<<"free">>, "free")
  OBVIOUS
<1>5. \A input \in Controls : TodoOK("live", ControlOps[input])
  <2>1. /\ TodoOK("live", <<"activate", "wake_video">>)
        /\ TodoOK("live", <<"deactivate", "resync", "wake_video">>)
        /\ TodoOK("live", <<"resync", "wake_video">>)
        /\ TodoOK("live", <<"resync">>)
    OBVIOUS
  <2> HIDE DEF TodoOK
  <2>2. QED
    BY <2>1 DEF Controls, ControlOps
<1>6. TodoOK("live", <<"audio">>) /\ TodoOK("live", <<"wake_video", "audio">>)
  OBVIOUS
<1>7. \A kind \in {"key", "delta"} : TodoOK("live", <<"swap", kind>>)
  OBVIOUS
<1>8. QED
  BY <1>1, <1>2, <1>3, <1>4, <1>5, <1>6, <1>7

(* One operation of a session: what is left to do afterwards ...           *)
LEMMA OperationLeaves ==
  ASSUME PublisherTypes, NEW p \in Publishers, Operate(p)
  PROVE  /\ todo[p] \in Seq(Ops) /\ todo[p] # <<>> /\ Len(todo[p]) \in Nat \ {0}
         /\ phase' = phase /\ \A q \in Publishers \ {p} : todo'[q] = todo[q]
         /\ TodoOK(phase[p], todo[p]) => TodoOK(phase[p], todo'[p])
         /\ \A op \in Ops \ {"wake_video"} :
              /\ Has(todo'[p], op) => Has(todo[p], op)
              /\ op # todo[p][1] => (Has(todo'[p], op) <=> Has(todo[p], op))
         /\ todo[p][1] # "wake_video" /\ Wakes(todo[p]) => Wakes(todo'[p])
<1>1. todo[p] \in Seq(Ops) /\ todo \in [Publishers -> Seq(Ops)]
      /\ phase[p] \in {"new", "counting", "live", "gone"}
  BY DEF PublisherTypes
<1>2. todo[p] # <<>> /\ phase' = phase
  BY DEF Operate, Free, Activate, Deactivate, Swap, Resync, SendAudio, SendVideo, Due
<1>3. /\ Len(todo[p]) \in Nat \ {0} /\ Head(todo[p]) = todo[p][1]
      /\ Tail(todo[p]) \in Seq(Ops) /\ Len(Tail(todo[p])) = Len(todo[p]) - 1
      /\ \A n \in 1 .. Len(todo[p]) - 1 : Tail(todo[p])[n] = todo[p][n + 1]
  BY <1>1, <1>2, TailFacts
<1>4. \A ops : Then(p, ops) => /\ todo'[p] = ops \o Tail(todo[p])
                               /\ \A q \in Publishers \ {p} : todo'[q] = todo[q]
  BY <1>1 DEF Then
<1>5. CASE Then(p, <<>>)
  <2>1. todo'[p] = Tail(todo[p])
    BY <1>3, <1>4, <1>5, ConcatEmptySeq
  <2>2. /\ \A where : TodoOK(where, todo[p]) => TodoOK(where, todo'[p])
        /\ \A op : Has(todo'[p], op) => Has(todo[p], op)
        /\ \A op : op # todo[p][1] => (Has(todo'[p], op) <=> Has(todo[p], op))
        /\ todo[p][1] # "wake_video" => (Wakes(todo'[p]) <=> Wakes(todo[p]))
    BY <1>1, <1>2, <1>3, <2>1, TailOps
  <2>3. QED
    BY <1>1, <1>2, <1>3, <1>4, <1>5, <2>2
<1>6. CASE Swap(p) /\ Then(p, <<"wake_video">>)
  <2>1. todo'[p] = <<"wake_video">> \o Tail(todo[p]) /\ todo[p][1] = "swap"
    BY <1>3, <1>4, <1>6 DEF Swap, Due
  <2>2. /\ todo'[p] \in Seq(Ops) /\ Len(todo'[p]) = Len(todo[p])
        /\ todo'[p][1] = "wake_video"
        /\ \A n \in 2 .. Len(todo[p]) : todo'[p][n] = todo[p][n]
    BY <1>1, <1>2, <2>1, SwapIsExcept
  <2>3. /\ TodoOK(phase[p], todo[p]) => phase[p] = "live" /\ TodoOK("live", todo'[p])
        /\ \A op \in Ops \ {"swap", "wake_video"} : Has(todo'[p], op) <=> Has(todo[p], op)
        /\ Wakes(todo[p]) => Wakes(todo'[p])
    BY <1>1, <1>2, <2>1, <2>2, SwapOps
  <2>4. Has(todo[p], "swap")
    BY <1>3, <2>1 DEF Has
  <2>5. QED
    BY <1>1, <1>2, <1>3, <1>4, <1>6, <2>1, <2>3, <2>4
<1>7. QED
  BY <1>5, <1>6
  DEF Operate, Free, Activate, Deactivate, Swap, Resync, SendAudio, SendVideo

(* ... and what it did to the channel.                                     *)
LEMMA OperationDoes ==
  ASSUME PublisherTypes, NEW p \in Publishers, Operate(p)
  PROVE
    \/ /\ todo[p][1] = "free" /\ streamer' = FALSE
       /\ UNCHANGED <<video_active, resync_epoch, audio_rx, video_rx>>
    \/ /\ todo[p][1] \in {"activate", "swap"} /\ video_active' = TRUE
       /\ UNCHANGED <<streamer, resync_epoch, audio_rx, video_rx>>
    \/ /\ todo[p][1] = "deactivate" /\ video_active' = FALSE
       /\ UNCHANGED <<streamer, resync_epoch, audio_rx, video_rx>>
    \/ /\ todo[p][1] = "resync" /\ resync_epoch' = resync_epoch + 1
       /\ UNCHANGED <<streamer, video_active, audio_rx, video_rx>>
    \/ /\ todo[p][1] \in {"wake_audio", "audio"} /\ SendAudio(p)
       /\ UNCHANGED <<streamer, video_active, resync_epoch, video_rx>>
    \/ /\ todo[p][1] \in {"wake_video", "key", "delta"} /\ SendVideo(p)
       /\ UNCHANGED <<streamer, video_active, resync_epoch, audio_rx>>
<1>1. Head(todo[p]) = todo[p][1]
  BY OperationLeaves, TailFacts
<1> USE <1>1 DEF Due, receivers, channel
<1>2. CASE Free(p)
  BY <1>2 DEF Free
<1>3. CASE Activate(p) \/ Swap(p)
  BY <1>3 DEF Activate, Swap
<1>4. CASE Deactivate(p)
  BY <1>4 DEF Deactivate
<1>5. CASE Resync(p)
  BY <1>5 DEF Resync
<1>6. CASE SendAudio(p)
  <2>1. todo[p][1] \in {"wake_audio", "audio"} /\ UNCHANGED <<channel, video_rx>>
    BY <1>6 DEF SendAudio
  <2>2. QED
    BY <1>6, <2>1
<1>7. CASE SendVideo(p)
  <2>1. todo[p][1] \in {"wake_video", "key", "delta"} /\ UNCHANGED <<channel, audio_rx>>
    BY <1>7 DEF SendVideo
  <2>2. QED
    BY <1>7, <2>1
<1>8. QED
  BY <1>2, <1>3, <1>4, <1>5, <1>6, <1>7 DEF Operate

(* Every other step of a session changes its phase or begins a command.    *)
LEMMA SessionMoves ==
  ASSUME PublisherTypes, NEW p \in Publishers, PublisherStep(p), ~Operate(p)
  PROVE
    /\ UNCHANGED <<video_active, resync_epoch, task, audio_rx, video_rx, shown, gap, resynced>>
    /\ \A q \in Publishers \ {p} : phase'[q] = phase[q] /\ todo'[q] = todo[q]
    /\ \/ /\ phase[p] = "new" /\ ~streamer /\ streamer' = TRUE
          /\ phase'[p] = "counting" /\ todo' = todo
       \/ /\ phase[p] = "counting" /\ phase'[p] = "gone" /\ todo'[p] = <<"free">>
          /\ UNCHANGED streamer
       \/ /\ phase[p] = "counting" /\ phase'[p] = "live" /\ todo'[p] = StartOps
          /\ UNCHANGED streamer
       \/ /\ phase[p] \in {"counting", "live"} /\ todo[p] = <<>>
          /\ phase'[p] = "gone" /\ todo'[p] = LeaveOps
          /\ UNCHANGED streamer
       \/ /\ phase[p] = "live" /\ todo[p] = <<>> /\ phase'[p] = "live"
          /\ TodoOK("live", todo'[p])
          /\ UNCHANGED streamer
<1> USE DEF PublisherTypes, history, receivers, channel
<1>1. CASE Admit(p)
  BY <1>1 DEF Admit, Enter
<1>2. CASE Refuse(p)
  BY <1>2 DEF Refuse, Enter, Begin
<1>3. CASE Start(p)
  BY <1>3 DEF Start, Enter, Begin
<1>4. CASE Leave(p)
  BY <1>4 DEF Leave, Enter, Begin, Idle
<1>5. CASE \E input, ops : Command(p, input, ops) /\ TodoOK("live", ops)
  <2>1. PICK input, ops : Command(p, input, ops) /\ TodoOK("live", ops)
    BY <1>5
  <2>2. QED
    BY <2>1 DEF Command, Begin, Idle
<1>6. \E input, ops : Control(p) \/ AudioFrame(p) \/ VideoFrame(p)
        => Command(p, input, ops) /\ TodoOK("live", ops)
  <2>1. CASE Control(p)
    BY <2>1, BegunOps DEF Control
  <2>2. CASE AudioFrame(p)
    BY <2>2, BegunOps DEF AudioFrame
  <2>3. CASE VideoFrame(p)
    BY <2>3, BegunOps DEF VideoFrame
  <2>4. QED
    BY <2>1, <2>2, <2>3
<1>7. QED
  BY <1>1, <1>2, <1>3, <1>4, <1>5, <1>6 DEF PublisherStep

LEMMA PublisherInit == Init => PublisherInv
<1> SUFFICES ASSUME Init PROVE PublisherInv
  OBVIOUS
<1>1. \A p \in Publishers : phase[p] = "new" /\ todo[p] = <<>>
  BY DEF Init
<1>2. TodoInv
  BY <1>1, BegunOps DEF TodoInv
<1>3. \A p \in Publishers : ~Holds(p)
  BY <1>1, BegunOps DEF Holds
<1>4. QED
  BY <1>2, <1>3 DEF Init, PublisherInv, FlagInv, ActiveInv

LEMMA TodoStep ==
  ASSUME PublisherTypes, TodoInv, NEW p \in Publishers, PublisherStep(p)
  PROVE  TodoInv'
<1>1. CASE Operate(p)
  BY <1>1, OperationLeaves DEF TodoInv
<1>2. CASE ~Operate(p)
  <2>1. TodoOK(phase[p], todo[p])
    BY DEF TodoInv
  <2>0. phase[p] = "new" => todo[p] = <<>>
    BY <2>1 DEF TodoOK
  <2>2. TodoOK(phase'[p], todo'[p])
    BY <1>2, <2>0, SessionMoves, BegunOps
  <2>3. QED
    BY <1>2, <2>2, SessionMoves DEF TodoInv
<1>3. QED
  BY <1>1, <1>2

LEMMA FlagStep ==
  ASSUME PublisherTypes, TodoInv, FlagInv, NEW p \in Publishers, PublisherStep(p)
  PROVE  FlagInv'
<1>1. CASE Operate(p)
  <2>1. /\ phase' = phase /\ \A q \in Publishers \ {p} : todo'[q] = todo[q]
        /\ Has(todo'[p], "free") => Has(todo[p], "free")
        /\ "free" # todo[p][1] => (Has(todo'[p], "free") <=> Has(todo[p], "free"))
    BY <1>1, OperationLeaves DEF Ops
  <2>2. CASE todo[p][1] = "free"
    <3>1. phase[p] = "gone"
      <4>1. 1 \in 1 .. Len(todo[p]) /\ todo[p] # <<>>
        BY <1>1, OperationLeaves
      <4>2. Has(todo[p], "free")
        BY <2>2, <4>1 DEF Has
      <4>3. QED
        BY <4>1, <4>2 DEF TodoInv, TodoOK, PublisherTypes
    <3>2. Holds(p)
      <4>1. 1 \in 1 .. Len(todo[p])
        BY <1>1, OperationLeaves
      <4>2. QED
        BY <2>2, <4>1 DEF Holds, Has
    <3>3. ~Has(todo'[p], "free")
      <4>1. /\ \A n \in 1 .. Len(todo[p]) : todo[p][n] = "free" => n = 1
            /\ todo[p] \in Seq(Ops) /\ todo[p] # <<>>
        BY <1>1, <3>1, OperationLeaves DEF TodoInv, TodoOK
      <4>2. todo'[p] = Tail(todo[p])
        BY <1>1, <2>2, <4>1, TailFacts, ConcatEmptySeq
        DEF Operate, Free, Activate, Deactivate, Swap, Resync, SendAudio, SendVideo, Due,
            Then, PublisherTypes
      <4>3. /\ Len(todo[p]) \in Nat \ {0} /\ Len(Tail(todo[p])) = Len(todo[p]) - 1
            /\ \A n \in 1 .. Len(todo[p]) - 1 : Tail(todo[p])[n] = todo[p][n + 1]
        BY <4>1, TailFacts
      <4>4. ASSUME NEW n \in 1 .. Len(todo'[p]) PROVE todo'[p][n] # "free"
        <5>1. n \in 1 .. Len(todo[p]) - 1 /\ n + 1 \in 1 .. Len(todo[p]) /\ n + 1 # 1
          BY <4>2, <4>3, <4>4
        <5>2. QED
          BY <4>1, <4>2, <4>3, <5>1
      <4>5. QED
        BY <4>4 DEF Has
    <3>4. \A q \in Publishers : ~Holds(q)'
      BY <2>1, <3>1, <3>2, <3>3 DEF FlagInv, Holds
    <3>5. streamer' = FALSE
      BY <1>1, <2>2, OperationDoes
    <3>6. QED
      BY <3>4, <3>5 DEF FlagInv
  <2>3. CASE todo[p][1] # "free"
    <3>1. \A q \in Publishers : Holds(q)' <=> Holds(q)
      BY <2>1, <2>3 DEF Holds
    <3>2. streamer' = streamer
      BY <1>1, <2>3, OperationDoes, Zenon
    <3>3. QED
      BY <3>1, <3>2 DEF FlagInv
  <2>4. QED
    BY <2>2, <2>3
<1>2. CASE ~Operate(p)
  <2>1. \A q \in Publishers \ {p} : phase'[q] = phase[q] /\ todo'[q] = todo[q]
    BY <1>2, SessionMoves
  <2>2. \A q \in Publishers \ {p} : Holds(q)' <=> Holds(q)
    BY <2>1 DEF Holds
  <2>3. CASE ~streamer /\ streamer' = TRUE /\ phase'[p] = "counting"
    BY <2>2, <2>3 DEF FlagInv, Holds
  <2>4. CASE streamer' = streamer /\ Holds(p) /\ Holds(p)'
    BY <2>2, <2>4 DEF FlagInv
  <2>5. QED
    BY <1>2, <2>3, <2>4, SessionMoves, BegunOps DEF Holds
<1>3. QED
  BY <1>1, <1>2

LEMMA ActiveStep ==
  ASSUME PublisherTypes, TodoInv, ActiveInv, NEW p \in Publishers, PublisherStep(p)
  PROVE  ActiveInv'
<1> SUFFICES ASSUME video_active'
             PROVE  \E q \in Publishers : phase'[q] = "live" \/ Has(todo'[q], "deactivate")
  BY DEF ActiveInv
<1>1. CASE Operate(p)
  <2>1. /\ phase' = phase /\ \A q \in Publishers \ {p} : todo'[q] = todo[q]
        /\ "deactivate" # todo[p][1]
             => (Has(todo'[p], "deactivate") <=> Has(todo[p], "deactivate"))
        /\ 1 \in 1 .. Len(todo[p]) /\ todo[p] # <<>>
    BY <1>1, OperationLeaves DEF Ops
  <2>2. "deactivate" # todo[p][1]
    BY <1>1, OperationDoes
  <2>3. CASE video_active
    BY <2>1, <2>2, <2>3 DEF ActiveInv
  <2>4. CASE ~video_active
    <3>1. todo[p][1] \in {"activate", "swap"}
      BY <1>1, <2>4, OperationDoes, Zenon
    <3>2. phase[p] = "live"
      BY <2>1, <3>1 DEF TodoInv, TodoOK, PublisherTypes
    <3>3. QED
      BY <2>1, <3>2
  <2>5. QED
    BY <2>3, <2>4
<1>2. CASE ~Operate(p)
  <2>1. PICK q \in Publishers : phase[q] = "live" \/ Has(todo[q], "deactivate")
    BY <1>2, SessionMoves DEF ActiveInv
  <2>2. CASE q # p
    BY <1>2, <2>1, <2>2, SessionMoves
  <2>3. CASE q = p
    <3>1. phase[p] \in {"new", "counting"} \/ todo[p] = <<>> => ~Has(todo[p], "deactivate")
      BY BegunOps DEF TodoInv, TodoOK
    <3>2. QED
      BY <1>2, <2>1, <2>3, <3>1, SessionMoves, BegunOps
  <2>4. QED
    BY <2>2, <2>3
<1>3. QED
  BY <1>1, <1>2

(* Nothing a listener does is seen by a session.                           *)
LEMMA PublisherInvStep == TypeInv /\ PublisherInv /\ [Next]_vars => PublisherInv'
<1> SUFFICES ASSUME TypeInv, PublisherInv, [Next]_vars PROVE PublisherInv'
  OBVIOUS
<1>1. ASSUME NEW p \in Publishers, PublisherStep(p) PROVE PublisherInv'
  BY <1>1, TodoStep, FlagStep, ActiveStep DEF TypeInv, PublisherInv
<1>2. ASSUME UNCHANGED <<channel, publishers>> PROVE PublisherInv'
  BY <1>2 DEF channel, publishers, PublisherInv, TodoInv, FlagInv, ActiveInv, Holds
<1>3. ASSUME NEW l \in Listeners, ListenerStep(l) PROVE PublisherInv'
  BY <1>2, <1>3, OthersKept
<1>4. QED
  BY <1>1, <1>2, <1>3 DEF Next, PublisherStep, ListenerStep, vars
-----------------------------------------------------------------------------
(* One session's frames at a time.  A receiver is read from position 1 on; *)
(* position 0 stands for what the task works with (w) and the position     *)
(* after the last for who may send next (e).                               *)

Break(m) == m.kind \in {"wake", "lagged"}

Source(rx, w, e, i) ==
  IF i = 0 THEN w
  ELSE IF i = Len(rx) + 1 THEN e
  ELSE IF Break(rx[i]) THEN {} ELSE {rx[i].by}

BreakIn(rx, a, b) == \E m \in 1 .. Len(rx) : a < m /\ m < b /\ Break(rx[m])

(* Between two sessions there is a message that closes the keyframe gate.  *)
Apart(rx, w, e) ==
  \A i, j \in 0 .. Len(rx) + 1 :
    \A q \in Source(rx, w, e, i), r \in Source(rx, w, e, j) :
      i <= j /\ q # r => BreakIn(rx, i, j)

Single(S) == \A q, r \in S : q = r

LEMMA ApartLess ==
  ASSUME NEW rx \in Seq(Items), NEW w, NEW e, NEW w2, NEW e2,
         w2 \subseteq w, e2 \subseteq e, Apart(rx, w, e)
  PROVE  Apart(rx, w2, e2)
<1>1. \A i : Source(rx, w2, e2, i) \subseteq Source(rx, w, e, i)
  BY DEF Source
<1>2. QED
  BY <1>1 DEF Apart

LEMMA ApartNothing ==
  ASSUME NEW e, Single(e)
  PROVE  Apart(<<>>, {}, e)
<1>1. Len(<<>>) = 0 /\ \A i \in 0 .. 1 : i # 0 => Source(<<>>, {}, e, i) = e
  BY DEF Source
<1>2. Source(<<>>, {}, e, 0) = {}
  BY DEF Source
<1>3. QED
  BY <1>1, <1>2 DEF Apart, Single

LEMMA ApartWorking ==
  ASSUME NEW rx \in Seq(Items), NEW w, NEW e, Apart(rx, w, e)
  PROVE  Single(w)
<1>1. Len(rx) \in Nat
  BY LenProperties
<1>2. 0 \in 0 .. Len(rx) + 1 /\ Source(rx, w, e, 0) = w
  BY <1>1 DEF Source
<1>3. ~BreakIn(rx, 0, 0)
  BY <1>1 DEF BreakIn
<1>4. QED
  BY <1>2, <1>3 DEF Apart, Single

LEMMA ApartLagged ==
  ASSUME NEW w, NEW e, Single(w), Single(e)
  PROVE  Apart(Lagged, w, e)
<1>1. Len(Lagged) = 1 /\ Break(Lagged[1])
  BY LaggedIsASeq DEF LagMark, Break
<1>2. /\ Source(Lagged, w, e, 0) = w
      /\ Source(Lagged, w, e, 1) = {}
      /\ Source(Lagged, w, e, 2) = e
  BY <1>1 DEF Source
<1>3. BreakIn(Lagged, 0, 2)
  BY <1>1 DEF BreakIn
<1> HIDE DEF Lagged, Source, BreakIn
<1>4. ASSUME NEW i \in 0 .. 2, NEW j \in 0 .. 2, i <= j,
             NEW q \in Source(Lagged, w, e, i), NEW r \in Source(Lagged, w, e, j), q # r
      PROVE  BreakIn(Lagged, i, j)
  <2>1. i # 1 /\ j # 1
    BY <1>2, <1>4
  <2>2. i \in {0, 2} /\ j \in {0, 2}
    BY <2>1
  <2>3. i # j
    BY <1>2, <1>4, <2>2 DEF Single
  <2>4. i = 0 /\ j = 2
    BY <1>4, <2>2, <2>3
  <2>5. QED
    BY <1>3, <2>4
<1>5. Len(Lagged) + 1 = 2
  BY <1>1
<1>6. QED
  BY <1>4, <1>5 DEF Apart

LEMMA AppendFacts ==
  ASSUME NEW rx \in Seq(Items), NEW m \in Items
  PROVE  /\ Append(rx, m) \in Seq(Items) /\ Len(Append(rx, m)) = Len(rx) + 1
         /\ Len(rx) \in Nat
         /\ \A i \in 1 .. Len(rx) : Append(rx, m)[i] = rx[i]
         /\ Append(rx, m)[Len(rx) + 1] = m
  BY AppendProperties, LenProperties

(* A frame of the session that may send next.                              *)
LEMMA ApartFrame ==
  ASSUME NEW rx \in Seq(Items), NEW w, NEW e, Apart(rx, w, e),
         NEW m \in Items, ~Break(m), m.by \in e
  PROVE  Apart(Append(rx, m), w, e)
<1> DEFINE rx2 == Append(rx, m)
<1>1. /\ rx2 \in Seq(Items) /\ Len(rx2) = Len(rx) + 1 /\ Len(rx) \in Nat
      /\ \A i \in 1 .. Len(rx) : rx2[i] = rx[i]
      /\ rx2[Len(rx) + 1] = m
  BY AppendFacts
<1> HIDE DEF rx2
<1> DEFINE f(i) == IF i = Len(rx) + 2 THEN Len(rx) + 1 ELSE i
<1>2. ASSUME NEW i \in 0 .. Len(rx2) + 1
      PROVE  f(i) \in 0 .. Len(rx) + 1 /\ Source(rx2, w, e, i) \subseteq Source(rx, w, e, f(i))
  <2>1. CASE i \in 0 .. Len(rx)
    BY <1>1, <2>1 DEF Source
  <2>2. CASE i = Len(rx) + 1
    <3>1. Source(rx2, w, e, i) = {m.by}
      BY <1>1, <2>2 DEF Source
    <3>2. f(i) = Len(rx) + 1 /\ Source(rx, w, e, f(i)) = e
      BY <1>1, <2>2 DEF Source
    <3>3. QED
      BY <1>1, <3>1, <3>2
  <2>3. CASE i = Len(rx) + 2
    <3>1. Source(rx2, w, e, i) = e
      BY <1>1, <2>3 DEF Source
    <3>2. f(i) = Len(rx) + 1 /\ Source(rx, w, e, f(i)) = e
      BY <1>1, <2>3 DEF Source
    <3>3. QED
      BY <1>1, <3>1, <3>2
  <2>4. QED
    BY <1>1, <2>1, <2>2, <2>3
<1>3. ASSUME NEW i \in 0 .. Len(rx2) + 1, NEW j \in 0 .. Len(rx2) + 1, i <= j,
             NEW q \in Source(rx2, w, e, i), NEW r \in Source(rx2, w, e, j), q # r
      PROVE  BreakIn(rx2, i, j)
  <2>1. /\ f(i) \in 0 .. Len(rx) + 1 /\ f(j) \in 0 .. Len(rx) + 1
        /\ q \in Source(rx, w, e, f(i)) /\ r \in Source(rx, w, e, f(j))
    BY <1>2, <1>3
  <2>2. f(i) <= f(j)
    BY <1>1, <1>3
  <2>3. BreakIn(rx, f(i), f(j))
    BY <1>3, <2>1, <2>2 DEF Apart
  <2>4. PICK n \in 1 .. Len(rx) : f(i) < n /\ n < f(j) /\ Break(rx[n])
    BY <2>3 DEF BreakIn
  <2>5. n \in 1 .. Len(rx2) /\ i < n /\ n < j /\ Break(rx2[n])
    BY <1>1, <2>4
  <2>6. QED
    BY <2>5 DEF BreakIn
<1>4. QED
  BY <1>3 DEF Apart, rx2

(* A wake-up lets any one session send next.                               *)
LEMMA ApartBreak ==
  ASSUME NEW rx \in Seq(Items), NEW w, NEW e, Apart(rx, w, e),
         NEW m \in Items, Break(m), NEW e2, Single(e2)
  PROVE  Apart(Append(rx, m), w, e2)
<1> DEFINE rx2 == Append(rx, m)
<1>1. /\ rx2 \in Seq(Items) /\ Len(rx2) = Len(rx) + 1 /\ Len(rx) \in Nat
      /\ \A i \in 1 .. Len(rx) : rx2[i] = rx[i]
      /\ rx2[Len(rx) + 1] = m
  BY AppendFacts
<1> HIDE DEF rx2
<1>2. /\ \A i \in 0 .. Len(rx) : Source(rx2, w, e2, i) = Source(rx, w, e, i)
      /\ Source(rx2, w, e2, Len(rx) + 1) = {}
      /\ Source(rx2, w, e2, Len(rx) + 2) = e2
  <2>1. ASSUME NEW i \in 0 .. Len(rx) PROVE Source(rx2, w, e2, i) = Source(rx, w, e, i)
    <3>1. i = 0 \/ (i \in 1 .. Len(rx) /\ rx2[i] = rx[i])
      BY <1>1
    <3>2. i # Len(rx2) + 1 /\ i # Len(rx) + 1
      BY <1>1
    <3>3. QED
      BY <3>1, <3>2 DEF Source
  <2>2. Source(rx2, w, e2, Len(rx) + 1) = {}
    BY <1>1 DEF Source
  <2>3. Source(rx2, w, e2, Len(rx) + 2) = e2
    <3>1. Len(rx) + 2 = Len(rx2) + 1 /\ Len(rx) + 2 # 0
      BY <1>1
    <3>2. QED
      BY <3>1 DEF Source
  <2>4. QED
    BY <2>1, <2>2, <2>3
<1>3. ASSUME NEW i \in 0 .. Len(rx2) + 1, NEW j \in 0 .. Len(rx2) + 1, i <= j,
             NEW q \in Source(rx2, w, e2, i), NEW r \in Source(rx2, w, e2, j), q # r
      PROVE  BreakIn(rx2, i, j)
  <2>1. i # Len(rx) + 1 /\ j # Len(rx) + 1
    BY <1>2, <1>3
  <2>2. CASE j \in 0 .. Len(rx)
    <3>1. i \in 0 .. Len(rx)
      BY <1>1, <1>3, <2>2
    <3>2. BreakIn(rx, i, j)
      BY <1>1, <1>2, <1>3, <2>2, <3>1 DEF Apart
    <3>3. QED
      BY <1>1, <3>2 DEF BreakIn
  <2>3. CASE j = Len(rx) + 2 /\ i \in 0 .. Len(rx)
    BY <1>1, <2>3 DEF BreakIn
  <2>4. CASE j = Len(rx) + 2 /\ i = Len(rx) + 2
    BY <1>2, <1>3, <2>4 DEF Single
  <2>5. QED
    BY <1>1, <2>1, <2>2, <2>3, <2>4
<1>4. QED
  BY <1>3 DEF Apart, rx2

(* Reading a message moves every position down by one.                     *)
Shifts(rx, t) ==
  /\ Len(rx) \in Nat \ {0} /\ Len(t) = Len(rx) - 1
  /\ \A n \in 1 .. Len(rx) - 1 : t[n] = rx[n + 1]

LEMMA ShiftedSource ==
  ASSUME NEW rx, NEW t, NEW w, NEW w2, NEW e, Shifts(rx, t), NEW i \in 1 .. Len(t) + 1
  PROVE  Source(t, w2, e, i) = Source(rx, w, e, i + 1)
<1>1. Len(rx) \in Nat \ {0} /\ Len(t) = Len(rx) - 1
  BY DEF Shifts
<1>2. i # 0 /\ i + 1 # 0 /\ (i = Len(t) + 1 <=> i + 1 = Len(rx) + 1)
  BY <1>1
<1>3. i # Len(t) + 1 => t[i] = rx[i + 1]
  BY <1>1 DEF Shifts
<1>4. QED
  BY <1>2, <1>3 DEF Source

(* Reading a message that closes the gate.                                 *)
LEMMA ApartTakeBreak ==
  ASSUME NEW rx \in Seq(Items), rx # <<>>, NEW w, NEW e, Apart(rx, w, e), Break(rx[1])
  PROVE  Apart(Tail(rx), {}, e)
<1> DEFINE t == Tail(rx)
<1>0. Shifts(rx, t)
  BY TailFacts DEF Shifts
<1>1. /\ Len(rx) \in Nat \ {0} /\ Len(t) = Len(rx) - 1
      /\ \A n \in 1 .. Len(rx) - 1 : t[n] = rx[n + 1]
  BY <1>0 DEF Shifts
<1> HIDE DEF t
<1>2. /\ \A i \in 1 .. Len(t) + 1 : Source(t, {}, e, i) = Source(rx, w, e, i + 1)
      /\ Source(t, {}, e, 0) = {}
  <2>1. ASSUME NEW i \in 1 .. Len(t) + 1 PROVE Source(t, {}, e, i) = Source(rx, w, e, i + 1)
    BY <1>0, ShiftedSource
  <2>2. QED
    BY <2>1 DEF Source
<1>3. ASSUME NEW i \in 0 .. Len(t) + 1, NEW j \in 0 .. Len(t) + 1, i <= j,
             NEW q \in Source(t, {}, e, i), NEW r \in Source(t, {}, e, j), q # r
      PROVE  BreakIn(t, i, j)
  <2>1. i \in 1 .. Len(t) + 1 /\ j \in 1 .. Len(t) + 1
    BY <1>1, <1>2, <1>3
  <2>2. BreakIn(rx, i + 1, j + 1)
    <3>1. i + 1 \in 0 .. Len(rx) + 1 /\ j + 1 \in 0 .. Len(rx) + 1 /\ i + 1 <= j + 1
      BY <1>1, <1>3, <2>1
    <3>2. q \in Source(rx, w, e, i + 1) /\ r \in Source(rx, w, e, j + 1)
      BY <1>2, <1>3, <2>1
    <3>3. QED
      BY <1>3, <3>1, <3>2 DEF Apart
  <2>3. PICK n \in 1 .. Len(rx) : i + 1 < n /\ n < j + 1 /\ Break(rx[n])
    BY <2>2 DEF BreakIn
  <2>4. n - 1 \in 1 .. Len(t) /\ i < n - 1 /\ n - 1 < j /\ t[n - 1] = rx[n - 1 + 1]
    BY <1>1, <2>1, <2>3
  <2>5. n - 1 + 1 = n
    BY <1>1
  <2>6. QED
    BY <2>3, <2>4, <2>5 DEF BreakIn
<1>4. QED
  BY <1>3 DEF Apart, t

(* Taking a frame in hand.                                                 *)
LEMMA ApartTakeFrame ==
  ASSUME NEW rx \in Seq(Items), rx # <<>>, NEW w, NEW e, Apart(rx, w, e), ~Break(rx[1])
  PROVE  Apart(Tail(rx), w \cup {rx[1].by}, e)
<1> DEFINE t == Tail(rx)  w2 == w \cup {rx[1].by}
<1>0. Shifts(rx, t)
  BY TailFacts DEF Shifts
<1>1. /\ Len(rx) \in Nat \ {0} /\ Len(t) = Len(rx) - 1
      /\ \A n \in 1 .. Len(rx) - 1 : t[n] = rx[n + 1]
  BY <1>0 DEF Shifts
<1> HIDE DEF t, w2
<1>2. /\ \A i \in 1 .. Len(t) + 1 : Source(t, w2, e, i) = Source(rx, w, e, i + 1)
      /\ Source(t, w2, e, 0) = w2
      /\ Source(rx, w, e, 0) = w /\ Source(rx, w, e, 1) = {rx[1].by}
  <2>1. ASSUME NEW i \in 1 .. Len(t) + 1 PROVE Source(t, w2, e, i) = Source(rx, w, e, i + 1)
    BY <1>0, ShiftedSource
  <2>2. 1 # Len(rx) + 1 /\ 1 # 0
    BY <1>1
  <2>3. Source(rx, w, e, 1) = {rx[1].by}
    BY <2>2 DEF Source
  <2>4. QED
    BY <2>1, <2>3 DEF Source
<1>3. ASSUME NEW i \in 0 .. Len(t) + 1, NEW j \in 0 .. Len(t) + 1, i <= j,
             NEW q \in Source(t, w2, e, i), NEW r \in Source(t, w2, e, j), q # r
      PROVE  BreakIn(t, i, j)
  <2> DEFINE From(a, b) ==
               /\ a \in {0, i + 1} /\ (a = 0 => i = 0) /\ b \in {0, j + 1} /\ a <= b
               /\ q \in Source(rx, w, e, a) /\ r \in Source(rx, w, e, b)
  <2>1. ASSUME NEW a, NEW b, From(a, b)
        PROVE  BreakIn(t, i, j)
    <3>1. a \in 0 .. Len(rx) + 1 /\ b \in 0 .. Len(rx) + 1
      BY <1>1, <2>1
    <3>2. BreakIn(rx, a, b)
      BY <1>3, <2>1, <3>1 DEF Apart
    <3>3. PICK n \in 1 .. Len(rx) : a < n /\ n < b /\ Break(rx[n])
      BY <3>2 DEF BreakIn
    <3>4. n \in Nat /\ a < n /\ n < b /\ n <= Len(rx) /\ b = j + 1
      <4>1. n \in Nat /\ a \in Nat /\ n <= Len(rx)
        BY <1>1, <3>1, <3>3
      <4>2. b # 0
        BY <3>3, <4>1
      <4>3. QED
        BY <2>1, <3>3, <4>1, <4>2
    <3>5. n # 1
      BY <3>3
    <3>6. n - 1 \in 1 .. Len(t) /\ i < n - 1 /\ n - 1 < j
      <4>1. n \in 2 .. Len(rx)
        BY <1>1, <3>4, <3>5
      <4>2. i < n - 1
        BY <1>1, <2>1, <3>4, <4>1
      <4>3. QED
        BY <1>1, <3>4, <4>1, <4>2
    <3>7. t[n - 1] = rx[n]
      <4>1. t[n - 1] = rx[n - 1 + 1]
        BY <1>1, <3>6
      <4>2. n - 1 + 1 = n
        BY <3>4
      <4>3. QED
        BY <4>1, <4>2
    <3>8. QED
      BY <3>3, <3>6, <3>7 DEF BreakIn
  <2>0. Source(t, w2, e, 0) = w \cup {rx[1].by}
    BY <1>2 DEF w2
  <2>2. /\ i # 0 => q \in Source(rx, w, e, i + 1)
        /\ i = 0 => q \in w \/ q = rx[1].by
    BY <1>1, <1>2, <2>0
  <2>3. /\ j # 0 => r \in Source(rx, w, e, j + 1)
        /\ j = 0 => r \in w \/ r = rx[1].by
    BY <1>1, <1>2, <2>0
  <2>4. CASE i # 0
    <3>1. j # 0
      BY <1>1, <1>3, <2>4
    <3>2. q \in Source(rx, w, e, i + 1) /\ r \in Source(rx, w, e, j + 1)
      BY <2>2, <2>3, <2>4, <3>1
    <3>3. i + 1 # 0 /\ i + 1 <= j + 1
      BY <1>1, <1>3
    <3>4. From(i + 1, j + 1)
      BY <3>2, <3>3
    <3> HIDE DEF From
    <3>5. QED
      BY <2>1, <3>4
  <2>5. CASE i = 0 /\ j # 0
    <3>1. q \in Source(rx, w, e, 0) \/ q \in Source(rx, w, e, i + 1)
      BY <1>2, <2>2, <2>5
    <3>2. r \in Source(rx, w, e, j + 1) /\ 0 <= j + 1 /\ i + 1 <= j + 1
      BY <1>1, <1>3, <2>3, <2>5
    <3>3. i + 1 # 0
      BY <2>5
    <3>4. From(0, j + 1) \/ From(i + 1, j + 1)
      BY <2>5, <3>1, <3>2, <3>3
    <3> HIDE DEF From
    <3>5. QED
      BY <2>1, <3>4
  <2>6. CASE i = 0 /\ j = 0
    <3>1. PICK x, y : {x, y} = {q, r} /\ x # y /\ x \in w /\ y \in w \cup {rx[1].by}
      BY <1>3, <2>2, <2>3, <2>6
    <3>2. 0 \in 0 .. Len(rx) + 1 /\ 1 \in 0 .. Len(rx) + 1 /\ 0 <= 1 /\ 0 <= 0
      BY <1>1
    <3>3. BreakIn(rx, 0, 0) \/ BreakIn(rx, 0, 1)
      BY <1>2, <3>1, <3>2 DEF Apart
    <3>4. QED
      BY <3>3 DEF BreakIn
  <2>7. QED
    BY <2>4, <2>5, <2>6
<1>4. QED
  BY <1>3 DEF Apart, t, w2
-----------------------------------------------------------------------------
(* What each step of a media task does to the fields that matter.          *)

Kept(l) ==
  /\ task'[l].hand = task[l].hand /\ task'[l].epoch = task[l].epoch
  /\ task'[l].seen_keyframe = task[l].seen_keyframe
  /\ task'[l].last_state = task[l].last_state
  /\ task'[l].timeline = task[l].timeline /\ task'[l].anchor = task[l].anchor

KeptBut(l, picture, gate) ==
  /\ task'[l].hand = task[l].hand /\ task'[l].epoch = task[l].epoch
  /\ task'[l].seen_keyframe = gate
  /\ task'[l].last_state = picture
  /\ task'[l].timeline = task[l].timeline /\ task'[l].anchor = task[l].anchor

LEMMA Walks ==
  ASSUME TypeInv, NEW l \in Listeners, NEW x \in Places, NEW y \in BOOLEAN, NEW z \in BOOLEAN
  PROVE  /\ Set(l, [task[l] EXCEPT !.at = x]) => Kept(l) /\ task'[l].at = x
         /\ Set(l, [task[l] EXCEPT !.at = x, !.reporting = y]) => Kept(l) /\ task'[l].at = x
         /\ Set(l, [task[l] EXCEPT !.at = x, !.streamer_active = z])
              => Kept(l) /\ task'[l].at = x
<1>1. task[l] \in Task /\ \A t : Set(l, t) => task'[l] = t
  BY TaskParts
<1>2. ASSUME NEW t,
             \/ t = [task[l] EXCEPT !.at = x]
             \/ t = [task[l] EXCEPT !.at = x, !.reporting = y]
             \/ t = [task[l] EXCEPT !.at = x, !.streamer_active = z]
      PROVE  /\ t.at = x /\ t.hand = task[l].hand /\ t.epoch = task[l].epoch
             /\ t.seen_keyframe = task[l].seen_keyframe
             /\ t.last_state = task[l].last_state
             /\ t.timeline = task[l].timeline /\ t.anchor = task[l].anchor
  BY <1>1, <1>2 DEF Task
<1>3. ASSUME NEW t, Set(l, t),
             \/ t = [task[l] EXCEPT !.at = x]
             \/ t = [task[l] EXCEPT !.at = x, !.reporting = y]
             \/ t = [task[l] EXCEPT !.at = x, !.streamer_active = z]
      PROVE  Kept(l) /\ task'[l].at = x
  BY <1>1, <1>2, <1>3, Zenon DEF Kept
<1>4. QED
  BY <1>3

(* Places entered with the rest of the task as it was.                     *)
LEMMA Moving ==
  ASSUME TypeInv, NEW l \in Listeners
  PROVE  /\ Setup(l) => Kept(l) /\ task[l].at = "new" /\ task'[l].at = "ready"
         /\ Play(l) => Kept(l) /\ task[l].at = "ready" /\ task'[l].at = "begin"
         /\ ResyncAudio(l) =>
              Kept(l) /\ task[l].at = "resync_audio" /\ task'[l].at = "resync_video"
         /\ DropBacklog(l) =>
              Kept(l) /\ task[l].at = "backlog" /\ task'[l].at \in {"sync", "arm"}
         /\ Arm(l) => Kept(l) /\ task[l].at = "arm" /\ task'[l].at = "select"
         /\ Silence(l) \/ Report(l) => Kept(l) /\ task[l].at = "select" /\ task'[l].at = "top"
  BY Walks
  DEF Setup, Play, ResyncAudio, DropBacklog, Arm, Silence, Report, At, Go, Places, TypeInv,
      PublisherTypes

LEMMA EpochMoves ==
  ASSUME TypeInv, NEW l \in Listeners
  PROVE  /\ LoadEpoch(l) =>
              /\ task[l].at = "begin" /\ task'[l].at = "top"
              /\ task'[l].epoch = resync_epoch
              /\ task'[l].hand = task[l].hand
              /\ task'[l].seen_keyframe = task[l].seen_keyframe
              /\ task'[l].last_state = task[l].last_state
              /\ task'[l].timeline = task[l].timeline
         /\ Top(l) =>
              /\ task[l].at = "top" /\ task'[l].epoch = resync_epoch
              /\ task'[l].at = IF task[l].epoch = resync_epoch THEN "backlog"
                                                               ELSE "resync_audio"
              /\ task'[l].hand = task[l].hand
              /\ task'[l].seen_keyframe = task[l].seen_keyframe
              /\ task'[l].last_state = task[l].last_state
              /\ task'[l].timeline = task[l].timeline /\ task'[l].anchor = task[l].anchor
<1>a. task[l] \in Task /\ \A t : Set(l, t) => task'[l] = t
  BY TaskParts
<1>1. CASE LoadEpoch(l)
  BY <1>a, <1>1 DEF LoadEpoch, Top, At, Task
<1>2. CASE Top(l)
  <2> DEFINE x == IF task[l].epoch = resync_epoch THEN "backlog" ELSE "resync_audio"
             t == [task[l] EXCEPT !.epoch = resync_epoch, !.at = x]
  <2>1. task'[l] = t /\ task[l].at = "top"
    BY <1>a, <1>2 DEF Top, At
  <2>2. /\ t.at = x /\ t.epoch = resync_epoch /\ t.hand = task[l].hand
        /\ t.seen_keyframe = task[l].seen_keyframe
        /\ t.last_state = task[l].last_state
        /\ t.timeline = task[l].timeline /\ t.anchor = task[l].anchor
    <3> HIDE DEF x
    <3>1. QED
      BY <1>a DEF Task
  <2> HIDE DEF t
  <2>3. QED
    BY <1>2, <2>1, <2>2 DEF LoadEpoch, At
<1>3. QED
  BY <1>1, <1>2

LEMMA PictureMoves ==
  ASSUME TypeInv, NEW l \in Listeners
  PROVE  /\ ResyncVideo(l) =>
              /\ task[l].at = "resync_video" /\ task'[l].at = "backlog"
              /\ KeptBut(l, None, FALSE)
         /\ SyncStreamer(l) /\ streamer =>
              Kept(l) /\ task[l].at = "sync" /\ task'[l].at = "sync_video"
         /\ SyncStreamer(l) /\ ~streamer =>
              /\ task[l].at = "sync" /\ task'[l].at = "arm"
              /\ KeptBut(l, "Offline", IF task[l].last_state = "Offline"
                                         THEN task[l].seen_keyframe ELSE FALSE)
         /\ SyncVideo(l) =>
              /\ task[l].at = "sync_video" /\ task'[l].at = "arm"
              /\ \/ /\ video_active
                    /\ KeptBut(l, "Video", IF task[l].last_state = "Video"
                                             THEN task[l].seen_keyframe ELSE FALSE)
                 \/ /\ ~video_active
                    /\ KeptBut(l, "AudioOnly", IF task[l].last_state = "AudioOnly"
                                                 THEN task[l].seen_keyframe ELSE FALSE)
<1>a. task[l] \in Task
  BY TaskParts
<1>1. ASSUME NEW x \in Pictures, Set(l, Show(l, x))
      PROVE  /\ task'[l].at = "arm"
             /\ KeptBut(l, x, IF task[l].last_state = x THEN task[l].seen_keyframe ELSE FALSE)
  <2>1. task'[l] = Show(l, x)
    BY <1>1, TaskParts
  <2>2. CASE task[l].last_state = x
    BY <1>a, <2>1, <2>2 DEF Show, KeptBut, Task
  <2>3. CASE task[l].last_state # x
    <3> DEFINE u(b) == [AwaitKeyframe(task[l]) EXCEPT !.at = "arm", !.last_state = x,
                                                      !.reporting = b]
    <3>1. ASSUME NEW b
          PROVE  /\ u(b).at = "arm" /\ u(b).hand = task[l].hand /\ u(b).epoch = task[l].epoch
                 /\ u(b).seen_keyframe = FALSE /\ u(b).last_state = x
                 /\ u(b).timeline = task[l].timeline /\ u(b).anchor = task[l].anchor
      BY <1>a DEF AwaitKeyframe, Task
    <3>2. \E b : task'[l] = u(b)
      BY <2>1, <2>3, Zenon DEF Show
    <3> HIDE DEF u
    <3>3. KeptBut(l, x, FALSE) /\ task'[l].at = "arm"
      BY <3>1, <3>2 DEF KeptBut
    <3>4. QED
      BY <2>3, <3>3, Zenon
  <2>4. QED
    BY <2>2, <2>3
<1>2. CASE ResyncVideo(l)
  <2>1. task'[l] = [AwaitKeyframe(task[l]) EXCEPT !.at = "backlog", !.last_state = None]
    BY <1>2, TaskParts DEF ResyncVideo
  <2>2. QED
    BY <1>a, <1>2, <2>1 DEF ResyncVideo, SyncStreamer, SyncVideo, At, KeptBut, AwaitKeyframe, Task
<1>3. CASE SyncStreamer(l)
  BY <1>1, <1>3, Walks DEF SyncStreamer, ResyncVideo, SyncVideo, At, Go, Pictures, Places
<1>4. CASE SyncVideo(l)
  BY <1>1, <1>4 DEF SyncStreamer, ResyncVideo, SyncVideo, At, Pictures
<1>5. QED
  BY <1>2, <1>3, <1>4

(* A message is read: a frame is taken in hand, anything else is noted.    *)
LEMMA AudioTaken ==
  ASSUME TypeInv, NEW l \in Listeners, TakeAudio(l)
  PROVE  /\ task[l].at = "select" /\ audio_rx[l] \in Seq(Items) /\ audio_rx[l] # <<>>
         /\ audio_rx'[l] = Tail(audio_rx[l])
         /\ UNCHANGED <<video_rx, shown, gap, resynced>>
         /\ \/ Kept(l) /\ task'[l].at = "top"
            \/ /\ audio_rx[l][1].kind = "audio"
               /\ task'[l].at = "audio" /\ task'[l].hand = audio_rx[l][1]
               /\ task'[l].epoch = task[l].epoch
               /\ task'[l].seen_keyframe = task[l].seen_keyframe
               /\ task'[l].last_state = task[l].last_state
               /\ task'[l].timeline = task[l].timeline /\ task'[l].anchor = task[l].anchor
<1>a. task[l] \in Task /\ \A t : Set(l, t) => task'[l] = t
  BY TaskParts
<1>1. /\ task[l].at = "select" /\ audio_rx[l] \in Seq(Items) /\ audio_rx[l] # <<>>
      /\ audio_rx'[l] = Tail(audio_rx[l])
      /\ UNCHANGED <<video_rx, shown, gap, resynced>>
  BY DEF TakeAudio, TypeInv, ListenerTypes, At, history
<1>2. Head(audio_rx[l]) = audio_rx[l][1]
  BY <1>1, TailFacts
<1>3. CASE audio_rx[l][1].kind = "audio"
  <2>1. task'[l] = [task[l] EXCEPT !.at = "audio", !.hand = audio_rx[l][1]]
    BY <1>a, <1>2, <1>3 DEF TakeAudio
  <2> HIDE DEF Task
  <2>2. QED
    BY <1>a, <1>1, <1>3, <2>1 DEF Task
<1>4. CASE audio_rx[l][1].kind # "audio"
  BY <1>1, <1>2, <1>4, Walks DEF TakeAudio, Go, Places
<1>5. QED
  BY <1>3, <1>4

LEMMA VideoTaken ==
  ASSUME TypeInv, NEW l \in Listeners, TakeVideo(l)
  PROVE  /\ task[l].at = "select" /\ video_rx[l] \in Seq(Items) /\ video_rx[l] # <<>>
         /\ video_rx'[l] = Tail(video_rx[l])
         /\ UNCHANGED <<audio_rx, shown, resynced>>
         /\ gap'[l] = (gap[l] \/ video_rx[l] = Lagged)
         /\ task'[l].epoch = task[l].epoch
         /\ task'[l].timeline = task[l].timeline /\ task'[l].anchor = task[l].anchor
         /\ \/ /\ Break(video_rx[l][1]) /\ task'[l].at = "top" /\ ~task'[l].seen_keyframe
               /\ task'[l].last_state \in {None, task[l].last_state}
            \/ /\ ~Break(video_rx[l][1]) /\ video_rx[l] # Lagged
               /\ task'[l].at = "video" /\ task'[l].hand = video_rx[l][1]
               /\ task'[l].seen_keyframe = task[l].seen_keyframe
               /\ task'[l].last_state = task[l].last_state
<1>a. task[l] \in Task /\ \A t : Set(l, t) => task'[l] = t
  BY TaskParts
<1>1. /\ task[l].at = "select" /\ video_rx[l] \in Seq(Items) /\ video_rx[l] # <<>>
      /\ video_rx'[l] = Tail(video_rx[l])
      /\ UNCHANGED <<audio_rx, shown, resynced>>
      /\ gap'[l] = (gap[l] \/ video_rx[l] = Lagged)
  BY DEF TakeVideo, TypeInv, ListenerTypes, At
<1>2. Head(video_rx[l]) = video_rx[l][1]
  BY <1>1, TailFacts
<1> DEFINE m == video_rx[l][1]
           wake == [AwaitKeyframe(task[l]) EXCEPT !.at = "top", !.last_state = None]
           lagged == [AwaitKeyframe(task[l]) EXCEPT !.at = "top"]
           frame == [task[l] EXCEPT !.at = "video", !.hand = m]
<1>3. /\ m.kind = "wake" => task'[l] = wake
      /\ m.kind = "lagged" => task'[l] = lagged
      /\ ~Break(m) => task'[l] = frame
  BY <1>a, <1>2 DEF TakeVideo, Break
<1>4. /\ wake.epoch = task[l].epoch /\ wake.timeline = task[l].timeline
      /\ wake.anchor = task[l].anchor /\ wake.at = "top" /\ wake.seen_keyframe = FALSE
      /\ wake.last_state = None
  BY <1>a DEF AwaitKeyframe, Task
<1>5. /\ lagged.epoch = task[l].epoch /\ lagged.timeline = task[l].timeline
      /\ lagged.anchor = task[l].anchor /\ lagged.at = "top" /\ lagged.seen_keyframe = FALSE
      /\ lagged.last_state = task[l].last_state
  BY <1>a DEF AwaitKeyframe, Task
<1>6. /\ frame.epoch = task[l].epoch /\ frame.timeline = task[l].timeline
      /\ frame.anchor = task[l].anchor /\ frame.at = "video" /\ frame.hand = m
      /\ frame.seen_keyframe = task[l].seen_keyframe
      /\ frame.last_state = task[l].last_state
  BY <1>a DEF Task
<1>7. ~Break(m) => video_rx[l] # Lagged
  BY LaggedIsASeq DEF Break, LagMark
<1> HIDE DEF wake, lagged, frame
<1>8. CASE Break(m)
  <2>1. task'[l] = wake \/ task'[l] = lagged
    BY <1>3, <1>8 DEF Break
  <2>2. QED
    BY <1>1, <1>4, <1>5, <1>8, <2>1, Zenon
<1>9. CASE ~Break(m)
  BY <1>1, <1>3, <1>6, <1>7, <1>9, Zenon
<1>10. QED
  BY <1>8, <1>9

(* A frame leaves the hand, sent or not.                                   *)
LEMMA PutFields ==
  ASSUME NEW t \in Task
  PROVE  /\ Put(t).at = "top" /\ Put(t).epoch = t.epoch
         /\ Put(t).seen_keyframe = t.seen_keyframe /\ Put(t).last_state = t.last_state
         /\ Put(t).timeline = t.timeline /\ Put(t).anchor = t.anchor
         /\ AwaitKeyframe(Put(t)).at = "top" /\ AwaitKeyframe(Put(t)).epoch = t.epoch
         /\ AwaitKeyframe(Put(t)).seen_keyframe = FALSE
         /\ AwaitKeyframe(Put(t)).last_state = t.last_state
         /\ AwaitKeyframe(Put(t)).timeline = t.timeline
         /\ AwaitKeyframe(Put(t)).anchor = t.anchor
  BY DEF Put, AwaitKeyframe, Task

Anchored(t) == IF t.timeline # t.epoch \/ t.anchor = None THEN t.hand.by ELSE t.anchor

LEMMA SentFields ==
  ASSUME NEW t \in Task, t.hand \in Messages
  PROVE  /\ Mapped(t).anchor = Anchored(t)
         /\ Sent(t).at = "top" /\ Sent(t).epoch = t.epoch
         /\ Sent(t).seen_keyframe = t.seen_keyframe /\ Sent(t).last_state = t.last_state
         /\ Sent(t).timeline = t.epoch /\ Sent(t).anchor = Anchored(t)
         /\ Sent(t) \in Task
<1>1. t.hand.by \in Publishers
  BY DEF Messages
<1>2. /\ Mapped(t) \in Task /\ Mapped(t).epoch = t.epoch /\ Mapped(t).timeline = t.epoch
      /\ Mapped(t).seen_keyframe = t.seen_keyframe /\ Mapped(t).last_state = t.last_state
      /\ Mapped(t).anchor = Anchored(t)
  BY <1>1 DEF Mapped, Task, Anchored
<1>3. \A u \in Task :
        LET v == [u EXCEPT !.at = "top", !.hand = None, !.reporting = TRUE] IN
        /\ v.at = "top" /\ v.epoch = u.epoch /\ v.seen_keyframe = u.seen_keyframe
        /\ v.last_state = u.last_state /\ v.timeline = u.timeline /\ v.anchor = u.anchor
        /\ v \in Task
  BY DEF Task, Places
<1> DEFINE v == [Mapped(t) EXCEPT !.at = "top", !.hand = None, !.reporting = TRUE]
<1>4. /\ v.at = "top" /\ v.epoch = Mapped(t).epoch /\ v.seen_keyframe = Mapped(t).seen_keyframe
      /\ v.last_state = Mapped(t).last_state /\ v.timeline = Mapped(t).timeline
      /\ v.anchor = Mapped(t).anchor /\ v \in Task
  BY <1>2, <1>3, Zenon
<1>5. Sent(t) = v
  BY DEF Sent
<1> HIDE DEF v
<1>6. QED
  BY <1>2, <1>4, <1>5, Zenon

LEMMA AudioHandled ==
  ASSUME TypeInv, NEW l \in Listeners, HandleAudio(l)
  PROVE  /\ task[l].at = "audio" /\ task'[l].at = "top" /\ task'[l].epoch = task[l].epoch
         /\ task'[l].seen_keyframe = task[l].seen_keyframe
         /\ task'[l].last_state = task[l].last_state
         /\ \/ /\ task'[l].timeline = task[l].timeline /\ task'[l].anchor = task[l].anchor
            \/ /\ task'[l].timeline = task[l].epoch /\ task'[l].anchor = Anchored(task[l])
<1>1. /\ task[l] \in Task /\ task[l].at = "audio" /\ task[l].hand \in Messages
      /\ task'[l] = IF streamer THEN Sent(task[l]) ELSE Put(task[l])
  BY TaskParts DEF HandleAudio, At, TypeInv, TaskOK
<1>2. CASE streamer
  <2>1. /\ Sent(task[l]).at = "top" /\ Sent(task[l]).epoch = task[l].epoch
        /\ Sent(task[l]).seen_keyframe = task[l].seen_keyframe
        /\ Sent(task[l]).last_state = task[l].last_state
        /\ Sent(task[l]).timeline = task[l].epoch
        /\ Sent(task[l]).anchor = Anchored(task[l])
    BY <1>1, SentFields, Zenon
  <2>2. QED
    BY <1>1, <1>2, <2>1, Zenon
<1>3. CASE ~streamer
  BY <1>1, <1>3, PutFields, Zenon
<1>4. QED
  BY <1>2, <1>3

LEMMA VideoHandled ==
  ASSUME TypeInv, NEW l \in Listeners
  PROVE
    /\ CheckStreamer(l) =>
         /\ task[l].at = "video"
         /\ \/ streamer /\ Kept(l) /\ task'[l].at = "frame" /\ UNCHANGED gap
            \/ /\ ~streamer /\ task'[l].at = "top" /\ gap'[l] = TRUE
               /\ task'[l].epoch = task[l].epoch
               /\ task'[l].seen_keyframe = task[l].seen_keyframe
               /\ task'[l].last_state = task[l].last_state
               /\ task'[l].timeline = task[l].timeline /\ task'[l].anchor = task[l].anchor
    /\ Skip(l) =>
         /\ task[l].at = "frame" /\ task'[l].at = "top" /\ gap'[l] = TRUE /\ ~video_active
         /\ task'[l].epoch = task[l].epoch
         /\ task'[l].seen_keyframe = task[l].seen_keyframe
         /\ task'[l].last_state = task[l].last_state
         /\ task'[l].timeline = task[l].timeline /\ task'[l].anchor = task[l].anchor
    /\ Expire(l) =>
         /\ task[l].at = "frame" /\ task'[l].at = "top" /\ video_active
         /\ video_rx'[l] = <<>>
         /\ task'[l].epoch = task[l].epoch
         /\ task'[l].seen_keyframe = FALSE
         /\ task'[l].last_state = task[l].last_state
         /\ task'[l].timeline = task[l].timeline /\ task'[l].anchor = task[l].anchor
<1>1. task[l] \in Task /\ \A t : Set(l, t) => task'[l] = t
  BY TaskParts
<1>2. l \in DOMAIN gap /\ l \in DOMAIN video_rx
  BY DEF TypeInv, ListenerTypes
<1>p. /\ Put(task[l]).at = "top" /\ Put(task[l]).epoch = task[l].epoch
      /\ Put(task[l]).seen_keyframe = task[l].seen_keyframe
      /\ Put(task[l]).last_state = task[l].last_state
      /\ Put(task[l]).timeline = task[l].timeline /\ Put(task[l]).anchor = task[l].anchor
  BY <1>1, PutFields, Zenon
<1>3. CASE CheckStreamer(l)
  <2>1. task[l].at = "video"
    BY <1>3 DEF CheckStreamer, At
  <2>2. CASE streamer
    BY <1>3, <2>1, <2>2, Walks DEF CheckStreamer, Go, Places, Skip, Expire, At
  <2>3. CASE ~streamer
    <3>1. task'[l] = Put(task[l]) /\ gap'[l] = TRUE
      BY <1>1, <1>2, <1>3, <2>3 DEF CheckStreamer
    <3>2. ~Skip(l) /\ ~Expire(l)
      BY <2>1 DEF Skip, Expire, At
    <3>3. QED
      BY <1>p, <2>1, <2>3, <3>1, <3>2, Zenon
  <2>4. QED
    BY <2>2, <2>3
<1>4. CASE Skip(l)
  <2>1. task'[l] = Put(task[l]) /\ gap'[l] = TRUE /\ task[l].at = "frame" /\ ~video_active
    BY <1>1, <1>2, <1>4 DEF Skip, At
  <2>2. ~CheckStreamer(l) /\ ~Expire(l)
    BY <2>1 DEF CheckStreamer, Expire, At
  <2>3. QED
    BY <1>p, <2>1, <2>2, Zenon
<1>5. CASE Expire(l)
  <2>1. /\ task'[l] = AwaitKeyframe(Put(task[l])) /\ task[l].at = "frame" /\ video_active
        /\ video_rx'[l] = <<>>
    BY <1>1, <1>2, <1>5 DEF Expire, At
  <2>2. ~CheckStreamer(l) /\ ~Skip(l)
    BY <2>1 DEF CheckStreamer, Skip, At
  <2>3. QED
    BY <1>1, <2>1, <2>2, PutFields, Zenon
<1>6. QED
  BY <1>3, <1>4, <1>5

LEMMA PictureSent ==
  ASSUME TypeInv, NEW l \in Listeners, HandleVideo(l)
  PROVE
    /\ task[l].at = "frame" /\ task'[l].at = "top" /\ video_active
    /\ task'[l].epoch = task[l].epoch /\ task'[l].last_state = "Video"
    /\ \/ /\ Gated(task[l]) /\ shown'[l] = shown[l] /\ ~task'[l].seen_keyframe
          /\ task'[l].timeline = task[l].timeline /\ task'[l].anchor = task[l].anchor
       \/ /\ ~Gated(task[l]) /\ shown'[l] = task[l].hand.by /\ task'[l].seen_keyframe
          /\ gap'[l] = (gap[l] /\ task[l].hand.kind = "delta")
          /\ task'[l].timeline = task[l].epoch /\ task'[l].anchor = Anchored(task[l])
<1>1. /\ task[l] \in Task /\ \A t : Set(l, t) => task'[l] = t
      /\ task[l].at = "frame" /\ task[l].hand \in Messages /\ video_active
      /\ l \in DOMAIN gap /\ l \in DOMAIN shown
  BY TaskParts DEF HandleVideo, At, TypeInv, TaskOK, ListenerTypes
<1> DEFINE t == [task[l] EXCEPT !.last_state = "Video"]
<1>2. /\ t \in Task /\ t.hand = task[l].hand /\ t.epoch = task[l].epoch
      /\ t.timeline = task[l].timeline /\ t.anchor = task[l].anchor
      /\ t.last_state = "Video"
  BY <1>1 DEF Task, Pictures
<1>3. /\ Gated(task[l]) => task'[l] = AwaitKeyframe(Put(t)) /\ shown' = shown
      /\ ~Gated(task[l]) => /\ task'[l] = [Sent(t) EXCEPT !.seen_keyframe = TRUE]
                            /\ shown'[l] = t.hand.by
                            /\ gap'[l] = (gap[l] /\ t.hand.kind = "delta")
  BY <1>1 DEF HandleVideo
<1> HIDE DEF t
<1>4. CASE Gated(task[l])
  <2> HIDE DEF Task
  <2>1. QED
    BY <1>1, <1>2, <1>3, <1>4, PutFields
<1>5. CASE ~Gated(task[l])
  <2> DEFINE u == Sent(t)  v == [u EXCEPT !.seen_keyframe = TRUE]
  <2>1. /\ u \in Task /\ u.at = "top" /\ u.epoch = t.epoch /\ u.last_state = "Video"
        /\ u.timeline = t.epoch /\ u.anchor = Anchored(t)
    BY <1>1, <1>2, SentFields
  <2>2. Anchored(t) = Anchored(task[l])
    BY <1>2 DEF Anchored
  <2>3. task'[l] = v
    BY <1>3, <1>5
  <2> HIDE DEF u
  <2>4. /\ v.at = "top" /\ v.epoch = u.epoch /\ v.last_state = u.last_state
        /\ v.timeline = u.timeline /\ v.anchor = u.anchor /\ v.seen_keyframe = TRUE
    BY <2>1 DEF Task
  <2> HIDE DEF v, Task
  <2>5. QED
    BY <1>1, <1>2, <1>3, <1>5, <2>1, <2>2, <2>3, <2>4
<1>6. QED
  BY <1>4, <1>5

LEMMA Ended ==
  ASSUME TypeInv, NEW l \in Listeners, End(l)
  PROVE  /\ task'[l].at = "ended" /\ ~task'[l].seen_keyframe /\ task'[l].last_state = None
         /\ video_rx'[l] = <<>> /\ ~resynced'[l]
<1>1. /\ task'[l] = [NoTask EXCEPT !.at = "ended"]
      /\ video_rx'[l] = <<>> /\ resynced'[l] = FALSE
  BY TaskParts DEF End, TypeInv, ListenerTypes
<1>2. QED
  BY <1>1 DEF NoTask
-----------------------------------------------------------------------------
(* A task that is not playing holds no video, and has a keyframe behind it *)
(* only while it shows the video.                                          *)
IdleInv(l) ==
  /\ task[l].at \in {"new", "ready", "ended"} \/ l \notin VideoListeners => video_rx[l] = <<>>
  /\ task[l].at \in {"new", "ready", "begin", "ended"} =>
       task[l].last_state = None /\ ~task[l].seen_keyframe /\ ~resynced[l]
  /\ l \notin VideoListeners => ~task[l].seen_keyframe /\ task[l].at \notin {"video", "frame"}
  /\ task[l].seen_keyframe => task[l].last_state = "Video"

LEMMA IdleInit == Init => \A l \in Listeners : IdleInv(l)
  BY DEF Init, IdleInv, NoTask

(* What a broadcast puts in the receivers.                                 *)
LEMMA VideoSent ==
  ASSUME TypeInv, NEW p \in Publishers, Operate(p), SendVideo(p), NEW l \in Listeners
  PROVE  \E kind \in {"wake", "key", "delta"} :
           /\ todo[p][1] = IF kind = "wake" THEN "wake_video" ELSE kind
           /\ [kind |-> kind, by |-> p] \in Messages
           /\ SubscribedVideo(l) =>
                video_rx'[l] = Received(video_rx[l], [kind |-> kind, by |-> p])
           /\ ~SubscribedVideo(l) => video_rx'[l] = video_rx[l]
<1>1. PICK kind \in {"wake", "key", "delta"} :
        /\ Due(p, IF kind = "wake" THEN "wake_video" ELSE kind)
        /\ video_rx' = [k \in Listeners |->
             IF SubscribedVideo(k) THEN Received(video_rx[k], [kind |-> kind, by |-> p])
                                   ELSE video_rx[k]]
  BY DEF SendVideo
<1>2. Head(todo[p]) = todo[p][1]
  BY OperationLeaves, TailFacts DEF TypeInv
<1>3. [kind |-> kind, by |-> p] \in Messages
  BY DEF Messages
<1>4. QED
  BY <1>1, <1>2, <1>3 DEF Due

LEMMA AudioSent ==
  ASSUME TypeInv, NEW p \in Publishers, Operate(p), SendAudio(p), NEW l \in Listeners
  PROVE  \E kind \in {"wake", "audio"} :
           /\ todo[p][1] = IF kind = "wake" THEN "wake_audio" ELSE kind
           /\ [kind |-> kind, by |-> p] \in Messages
           /\ SubscribedAudio(l) =>
                audio_rx'[l] = Received(audio_rx[l], [kind |-> kind, by |-> p])
           /\ ~SubscribedAudio(l) => audio_rx'[l] = audio_rx[l]
<1>1. PICK kind \in {"wake", "audio"} :
        /\ Due(p, IF kind = "wake" THEN "wake_audio" ELSE kind)
        /\ audio_rx' = [k \in Listeners |->
             IF SubscribedAudio(k) THEN Received(audio_rx[k], [kind |-> kind, by |-> p])
                                   ELSE audio_rx[k]]
  BY DEF SendAudio
<1>2. Head(todo[p]) = todo[p][1]
  BY OperationLeaves, TailFacts DEF TypeInv
<1>3. [kind |-> kind, by |-> p] \in Messages
  BY DEF Messages
<1>4. QED
  BY <1>1, <1>2, <1>3 DEF Due

LEMMA IdlePublisher ==
  ASSUME TypeInv, NEW p \in Publishers, PublisherStep(p), NEW l \in Listeners, IdleInv(l)
  PROVE  IdleInv(l)'
<1>1. UNCHANGED <<task, resynced>>
  BY PublisherSends
<1>2. video_rx'[l] = video_rx[l] \/ SubscribedVideo(l)
  BY PublisherSends, VideoSent, OperationDoes DEF TypeInv, SendAudio
<1>3. QED
  BY <1>1, <1>2 DEF IdleInv, SubscribedVideo

LEMMA IdleListener ==
  ASSUME TypeInv, NEW l \in Listeners, ListenerStep(l), IdleInv(l)
  PROVE  IdleInv(l)'
<1> USE RelayAssumption DEF IdleInv, Pictures
<1>1. CASE Setup(l) \/ Play(l) \/ ResyncAudio(l) \/ DropBacklog(l) \/ Arm(l) \/ Silence(l)
           \/ Report(l)
  <2>1. Kept(l) /\ UNCHANGED <<video_rx, resynced>>
    BY <1>1, Moving
    DEF Setup, Play, ResyncAudio, DropBacklog, Arm, Silence, Report, receivers, history
  <2>2. /\ task'[l].at \in {"new", "ready", "ended"} => task[l].at \in {"new", "ready", "ended"}
        /\ task'[l].at \in {"new", "ready", "begin", "ended"} =>
             task[l].at \in {"new", "ready", "begin", "ended"}
        /\ task'[l].at \notin {"video", "frame"}
    BY <1>1, Moving
  <2>3. QED
    BY <2>1, <2>2 DEF Kept
<1>2. CASE LoadEpoch(l) \/ Top(l)
  <2>1. UNCHANGED <<video_rx, resynced>>
    BY <1>2 DEF LoadEpoch, Top, receivers, history
  <2>2. QED
    BY <1>2, <2>1, EpochMoves
<1>3. CASE ResyncVideo(l)
  <2>1. video_rx'[l] = <<>>
    BY <1>3 DEF ResyncVideo, SubscribeVideo, TypeInv, ListenerTypes
  <2>2. QED
    BY <1>3, <2>1, PictureMoves DEF KeptBut
<1>4. CASE SyncStreamer(l) \/ SyncVideo(l)
  <2>1. UNCHANGED <<video_rx, resynced>>
    BY <1>4 DEF SyncStreamer, SyncVideo, receivers, history
  <2>2. QED
    BY <1>4, <2>1, PictureMoves DEF Kept, KeptBut
<1>5. CASE TakeAudio(l)
  BY <1>5, AudioTaken DEF Kept
<1>6. CASE TakeVideo(l)
  <2>1. l \in VideoListeners
    BY <1>6, VideoTaken
  <2>2. QED
    BY <1>6, <2>1, VideoTaken
<1>7. CASE HandleAudio(l)
  <2>1. UNCHANGED <<video_rx, resynced>>
    BY <1>7 DEF HandleAudio, receivers, history
  <2>2. QED
    BY <1>7, <2>1, AudioHandled
<1>8. CASE CheckStreamer(l) \/ Skip(l) \/ Expire(l)
  <2>1. UNCHANGED resynced /\ (UNCHANGED video_rx \/ video_rx'[l] = <<>>)
    BY <1>8, VideoHandled DEF CheckStreamer, Skip, Expire, receivers, history
  <2>2. QED
    BY <1>8, <2>1, VideoHandled DEF Kept
<1>9. CASE HandleVideo(l)
  <2>1. UNCHANGED <<video_rx, resynced>>
    BY <1>9 DEF HandleVideo, receivers, history
  <2>2. QED
    BY <1>9, <2>1, PictureSent
<1>10. CASE End(l)
  BY <1>10, Ended
<1>11. QED
  BY <1>1, <1>2, <1>3, <1>4, <1>5, <1>6, <1>7, <1>8, <1>9, <1>10 DEF ListenerStep, Turn
-----------------------------------------------------------------------------
(* Session separation of the video a listener works on.                    *)

(* The session of the last picture while deltas are let through, and of    *)
(* the frame in hand.                                                      *)
Working(l) ==
  (IF task[l].seen_keyframe THEN {shown[l]} ELSE {})
  \cup (IF task[l].at \in {"video", "frame"} THEN {task[l].hand.by} ELSE {})

(* Who may send a frame with no wake-up before it.                         *)
Feeding == {p \in Publishers : phase[p] = "live" /\ ~Wakes(todo[p])}

SessionInv(l) == Apart(video_rx[l], Working(l), Feeding)

LEMMA FeedingSingle == FlagInv => Single(Feeding)
  BY DEF FlagInv, Holds, Feeding, Single

LEMMA SessionInit == Init => \A l \in Listeners : SessionInv(l)
<1> SUFFICES ASSUME Init, NEW l \in Listeners PROVE SessionInv(l)
  OBVIOUS
<1>1. Feeding = {} /\ video_rx[l] = <<>> /\ Working(l) = {}
  BY DEF Init, Feeding, Working, NoTask
<1>2. Single(Feeding)
  BY <1>1 DEF Single
<1>3. QED
  BY <1>1, <1>2, ApartNothing DEF SessionInv

(* Only a wake-up lets a session feed that did not.                        *)
LEMMA FeedingLess ==
  ASSUME PublisherTypes, NEW p \in Publishers, PublisherStep(p),
         Operate(p) => todo[p][1] # "wake_video"
  PROVE  Feeding' \subseteq Feeding
<1>1. CASE Operate(p)
  <2>1. /\ phase' = phase /\ \A q \in Publishers \ {p} : todo'[q] = todo[q]
        /\ Wakes(todo[p]) => Wakes(todo'[p])
    BY <1>1, OperationLeaves
  <2>2. QED
    BY <2>1 DEF Feeding
<1>2. CASE ~Operate(p)
  <2>1. \A q \in Publishers \ {p} : phase'[q] = phase[q] /\ todo'[q] = todo[q]
    BY <1>2, SessionMoves
  <2>2. phase'[p] = "live" /\ ~Wakes(todo'[p]) => phase[p] = "live" /\ todo[p] = <<>>
    BY <1>2, SessionMoves, BegunOps
  <2>3. QED
    BY <2>1, <2>2, BegunOps DEF Feeding
<1>3. QED
  BY <1>1, <1>2

(* A session that sends a frame is live, and the frame is the end of its   *)
(* command.                                                                *)
LEMMA FrameSender ==
  ASSUME PublisherTypes, TodoInv, NEW p \in Publishers, Operate(p), todo[p][1] \in FrameOps
  PROVE  phase[p] = "live" /\ ~Wakes(todo[p]) /\ ~Has(todo[p], "resync")
<1>1. /\ 1 \in 1 .. Len(todo[p]) /\ todo[p] # <<>> /\ TodoOK(phase[p], todo[p])
      /\ phase[p] \in {"new", "counting", "live", "gone"}
  BY OperationLeaves DEF TodoInv, PublisherTypes
<1>2. Len(todo[p]) = 1 /\ ~Has(todo[p], "resync")
  BY <1>1 DEF TodoOK
<1>3. phase[p] = "live"
  BY <1>1 DEF TodoOK, FrameOps
<1>4. QED
  BY <1>2, <1>3 DEF Wakes, FrameOps

LEMMA WorkingKept ==
  ASSUME NEW l, UNCHANGED <<task, shown>>
  PROVE  Working(l)' = Working(l)
  BY DEF Working

LEMMA SessionPublisher ==
  ASSUME TypeInv, PublisherInv, PublisherInv', NEW p \in Publishers, PublisherStep(p),
         NEW l \in Listeners, IdleInv(l), SessionInv(l)
  PROVE  SessionInv(l)'
<1>a. video_rx[l] \in Seq(Items) /\ PublisherTypes /\ TodoInv
  BY DEF TypeInv, ListenerTypes, PublisherInv
<1>b. Working(l)' = Working(l) /\ Apart(video_rx[l], Working(l), Feeding)
  BY PublisherSends, WorkingKept DEF SessionInv
<1>c. Single(Working(l)) /\ Single(Feeding')
  <2>1. FlagInv' => Single(Feeding)'
    BY FeedingSingle, PTL
  <2>2. QED
    BY <1>a, <1>b, <2>1, ApartWorking DEF PublisherInv, Single
<1>d. Apart(Lagged, Working(l), Feeding')
  BY <1>c, ApartLagged
<1>1. CASE Operate(p) /\ todo[p][1] = "wake_video"
  <2>1. SendVideo(p)
    BY <1>a, <1>1, OperationDoes
  <2>2. CASE SubscribedVideo(l)
    <3>1. PICK m \in Messages : m.kind = "wake" /\ video_rx'[l] = Received(video_rx[l], m)
      <4>1. PICK kind \in {"wake", "key", "delta"} :
              /\ todo[p][1] = IF kind = "wake" THEN "wake_video" ELSE kind
              /\ [kind |-> kind, by |-> p] \in Messages
              /\ video_rx'[l] = Received(video_rx[l], [kind |-> kind, by |-> p])
        BY <1>1, <2>1, <2>2, VideoSent
      <4>2. kind = "wake"
        BY <1>1, <4>1
      <4>3. QED
        BY <4>1, <4>2
    <3>2. m \in Items /\ Break(m)
      BY <3>1 DEF Items, Break
    <3>3. Apart(Append(video_rx[l], m), Working(l), Feeding')
      BY <1>a, <1>b, <1>c, <3>2, ApartBreak
    <3>4. QED
      BY <1>b, <1>d, <3>1, <3>3 DEF SessionInv, Received
  <2>3. CASE ~SubscribedVideo(l)
    <3>1. video_rx'[l] = video_rx[l]
      BY <1>1, <2>1, <2>3, VideoSent
    <3>2. video_rx[l] = <<>> /\ Working(l) = {}
      BY <2>3 DEF SubscribedVideo, IdleInv, Working
    <3>3. QED
      BY <1>b, <1>c, <3>1, <3>2, ApartNothing DEF SessionInv
  <2>4. QED
    BY <2>2, <2>3
<1>2. CASE ~(Operate(p) /\ todo[p][1] = "wake_video")
  <2>1. Feeding' \subseteq Feeding
    BY <1>a, <1>2, FeedingLess
  <2>2. ASSUME video_rx'[l] = video_rx[l] PROVE SessionInv(l)'
    BY <1>a, <1>b, <2>1, <2>2, ApartLess DEF SessionInv
  <2>3. CASE Operate(p) /\ SendVideo(p)
    <3>1. CASE SubscribedVideo(l)
      <4>1. PICK m \in Messages :
              /\ m.kind \in {"key", "delta"} /\ m.by = p /\ todo[p][1] = m.kind
              /\ video_rx'[l] = Received(video_rx[l], m)
        <5>1. PICK kind \in {"wake", "key", "delta"} :
                /\ todo[p][1] = IF kind = "wake" THEN "wake_video" ELSE kind
                /\ [kind |-> kind, by |-> p] \in Messages
                /\ video_rx'[l] = Received(video_rx[l], [kind |-> kind, by |-> p])
          BY <2>3, <3>1, VideoSent
        <5>2. kind \in {"key", "delta"}
          BY <1>2, <2>3, <5>1
        <5>3. QED
          BY <5>1, <5>2
      <4>2. m \in Items /\ ~Break(m)
        BY <4>1 DEF Items, Break
      <4>3. p \in Feeding
        BY <1>a, <2>3, <4>1, FrameSender DEF Feeding, FrameOps
      <4>4. Apart(Append(video_rx[l], m), Working(l), Feeding)
        BY <1>a, <1>b, <4>1, <4>2, <4>3, ApartFrame
      <4>5. Append(video_rx[l], m) \in Seq(Items)
        BY <1>a, <4>2, AppendFacts
      <4>6. Apart(Append(video_rx[l], m), Working(l), Feeding')
        BY <2>1, <4>4, <4>5, ApartLess
      <4>7. QED
        BY <1>b, <1>d, <4>1, <4>6 DEF SessionInv, Received
    <3>2. CASE ~SubscribedVideo(l)
      BY <2>2, <2>3, <3>2, VideoSent
    <3>3. QED
      BY <3>1, <3>2
  <2>4. CASE ~(Operate(p) /\ SendVideo(p))
    <3>1. video_rx' = video_rx
      BY <2>4, PublisherSends DEF SendAudio
    <3>2. QED
      BY <2>2, <3>1
  <2>5. QED
    BY <2>3, <2>4
<1>3. QED
  BY <1>1, <1>2

LEMMA FeedingKept == ASSUME UNCHANGED publishers PROVE Feeding' = Feeding
  BY DEF publishers, Feeding

LEMMA SessionListener ==
  ASSUME TypeInv, PublisherInv, NEW l \in Listeners, ListenerStep(l), IdleInv(l), SessionInv(l)
  PROVE  SessionInv(l)'
<1>a. video_rx[l] \in Seq(Items) /\ l \in DOMAIN shown /\ l \in DOMAIN video_rx
  BY DEF TypeInv, ListenerTypes
<1>b. Feeding' = Feeding /\ Apart(video_rx[l], Working(l), Feeding)
  BY OthersKept, FeedingKept DEF SessionInv
<1>1. ASSUME video_rx'[l] = video_rx[l], Working(l)' \subseteq Working(l)
      PROVE  SessionInv(l)'
  BY <1>a, <1>b, <1>1, ApartLess DEF SessionInv
<1>2. ASSUME video_rx'[l] = <<>>, ~task'[l].seen_keyframe,
             task'[l].at \notin {"video", "frame"}
      PROVE  SessionInv(l)'
  <2>1. Working(l)' = {}
    BY <1>2 DEF Working
  <2>2. Single(Feeding)
    BY FeedingSingle DEF PublisherInv
  <2>3. QED
    BY <1>b, <1>2, <2>1, <2>2, ApartNothing DEF SessionInv
<1>3. ASSUME shown'[l] = shown[l],
             task'[l].seen_keyframe => task[l].seen_keyframe,
             task'[l].at \in {"video", "frame"} =>
               task[l].at \in {"video", "frame"} /\ task'[l].hand = task[l].hand
      PROVE  Working(l)' \subseteq Working(l)
  BY <1>3 DEF Working
<1>4. CASE Setup(l) \/ Play(l) \/ ResyncAudio(l) \/ DropBacklog(l) \/ Arm(l) \/ Silence(l)
           \/ Report(l)
  <2>1. Kept(l) /\ UNCHANGED <<video_rx, shown>> /\ task'[l].at \notin {"video", "frame"}
    BY <1>4, Moving
    DEF Setup, Play, ResyncAudio, DropBacklog, Arm, Silence, Report, receivers, history
  <2>2. QED
    BY <1>1, <1>3, <2>1 DEF Kept
<1>5. CASE LoadEpoch(l) \/ Top(l)
  <2>1. UNCHANGED <<video_rx, shown>> /\ task'[l].at \notin {"video", "frame"}
        /\ task'[l].seen_keyframe = task[l].seen_keyframe
    BY <1>5, EpochMoves DEF LoadEpoch, Top, receivers, history
  <2>2. QED
    BY <1>1, <1>3, <2>1
<1>6. CASE ResyncVideo(l)
  <2>1. video_rx'[l] = <<>> /\ ~task'[l].seen_keyframe /\ task'[l].at = "backlog"
    BY <1>a, <1>6, PictureMoves DEF ResyncVideo, SubscribeVideo, KeptBut
  <2>2. QED
    BY <1>2, <2>1
<1>7. CASE SyncStreamer(l) \/ SyncVideo(l)
  <2>1. /\ UNCHANGED <<video_rx, shown>> /\ task'[l].at \notin {"video", "frame"}
        /\ task'[l].seen_keyframe => task[l].seen_keyframe
    BY <1>7, PictureMoves DEF SyncStreamer, SyncVideo, receivers, history, Kept, KeptBut
  <2>2. QED
    BY <1>1, <1>3, <2>1
<1>8. CASE TakeAudio(l)
  <2>1. /\ UNCHANGED <<video_rx, shown>> /\ task'[l].at \notin {"video", "frame"}
        /\ task'[l].seen_keyframe = task[l].seen_keyframe
    BY <1>8, AudioTaken DEF Kept
  <2>2. QED
    BY <1>1, <1>3, <2>1
<1>9. CASE TakeVideo(l)
  <2>a. /\ task[l].at = "select" /\ video_rx[l] # <<>> /\ video_rx'[l] = Tail(video_rx[l])
        /\ UNCHANGED shown
    BY <1>9, VideoTaken
  <2>1. CASE Break(video_rx[l][1])
    <3>1. Apart(Tail(video_rx[l]), {}, Feeding)
      BY <1>a, <1>b, <2>a, <2>1, ApartTakeBreak
    <3>2. Working(l)' = {}
      BY <1>9, <2>1, VideoTaken DEF Working
    <3>3. QED
      BY <1>b, <2>a, <3>1, <3>2 DEF SessionInv
  <2>2. CASE ~Break(video_rx[l][1])
    <3>1. Apart(Tail(video_rx[l]), Working(l) \cup {video_rx[l][1].by}, Feeding)
      BY <1>a, <1>b, <2>a, <2>2, ApartTakeFrame
    <3>2. Working(l)' = Working(l) \cup {video_rx[l][1].by}
      <4>1. /\ task'[l].at = "video" /\ task'[l].hand = video_rx[l][1]
            /\ task'[l].seen_keyframe = task[l].seen_keyframe
        BY <1>9, <2>2, VideoTaken
      <4>2. QED
        BY <2>a, <4>1 DEF Working
    <3>3. QED
      BY <1>b, <2>a, <3>1, <3>2 DEF SessionInv
  <2>3. QED
    BY <2>1, <2>2
<1>10. CASE HandleAudio(l)
  <2>1. /\ UNCHANGED <<video_rx, shown>> /\ task'[l].at \notin {"video", "frame"}
        /\ task'[l].seen_keyframe = task[l].seen_keyframe
    BY <1>10, AudioHandled DEF HandleAudio, receivers, history
  <2>2. QED
    BY <1>1, <1>3, <2>1
<1>11. CASE CheckStreamer(l) \/ Skip(l)
  <2>1. /\ UNCHANGED <<video_rx, shown>> /\ task'[l].seen_keyframe = task[l].seen_keyframe
        /\ task'[l].at \in {"video", "frame"} =>
             task[l].at \in {"video", "frame"} /\ task'[l].hand = task[l].hand
    BY <1>11, VideoHandled DEF CheckStreamer, Skip, receivers, Kept
  <2>2. QED
    BY <1>1, <1>3, <2>1
<1>12. CASE Expire(l)
  <2>1. video_rx'[l] = <<>> /\ ~task'[l].seen_keyframe /\ task'[l].at = "top"
    BY <1>12, VideoHandled
  <2>2. QED
    BY <1>2, <2>1
<1>13. CASE HandleVideo(l)
  <2>1. /\ UNCHANGED video_rx /\ task[l].at = "frame" /\ task'[l].at = "top"
        /\ ~task'[l].seen_keyframe \/ shown'[l] = task[l].hand.by
    BY <1>13, PictureSent DEF HandleVideo, receivers
  <2>2. Working(l)' \subseteq Working(l)
    BY <2>1 DEF Working
  <2>3. QED
    BY <1>1, <2>1, <2>2
<1>14. CASE End(l)
  <2>1. video_rx'[l] = <<>> /\ ~task'[l].seen_keyframe /\ task'[l].at = "ended"
    BY <1>14, Ended
  <2>2. QED
    BY <1>2, <2>1
<1>15. QED
  BY <1>4, <1>5, <1>6, <1>7, <1>8, <1>9, <1>10, <1>11, <1>12, <1>13, <1>14
  DEF ListenerStep, Turn
-----------------------------------------------------------------------------
(* One session per epoch: once a listener has resynchronised in an epoch,  *)
(* all it holds is of the one session that may still send in that epoch.   *)

Resyncing(l) == task[l].at \in {"resync_audio", "resync_video"}

(* The frames a receiver holds are of these sessions.                      *)
Heard(rx) == {q \in Publishers : \E n \in 1 .. Len(rx) : ~Break(rx[n]) /\ rx[n].by = q}

(* The sessions of the frame in hand, of the anchor while it is current,   *)
(* and of the frames that outlive a resynchronisation under way.           *)
Held(l) ==
  (IF task[l].at \in {"audio", "video", "frame"} THEN {task[l].hand.by} ELSE {})
  \cup (IF task[l].timeline = task[l].epoch /\ task[l].anchor # None
          THEN {task[l].anchor} ELSE {})
  \cup (IF task[l].at = "resync_audio" THEN {} ELSE Heard(audio_rx[l]))
  \cup (IF Resyncing(l) THEN {} ELSE Heard(video_rx[l]))

(* Who may send a frame without starting an epoch first.                   *)
Era == {p \in Publishers : phase[p] = "live" /\ ~Has(todo[p], "resync")}

Current(l) == task[l].epoch = resync_epoch /\ (resynced[l] \/ Resyncing(l))

EraInv(l) ==
  /\ Resyncing(l) => task[l].timeline < task[l].epoch
  /\ Current(l) => Single(Held(l) \cup Era)

LEMMA EraSingle == FlagInv => Single(Era)
  BY DEF FlagInv, Holds, Era, Single

LEMMA EraInit == Init => \A l \in Listeners : EraInv(l)
  BY DEF Init, EraInv, Resyncing, Current, NoTask

LEMMA HeardFacts ==
  ASSUME NEW rx \in Seq(Items)
  PROVE  /\ Heard(<<>>) = {} /\ Heard(Lagged) = {}
         /\ \A m \in Items : Heard(Append(rx, m))
              \subseteq IF Break(m) THEN Heard(rx) ELSE Heard(rx) \cup {m.by}
         /\ rx # <<>> => Heard(Tail(rx)) \subseteq Heard(rx)
         /\ rx # <<>> /\ ~Break(rx[1]) => rx[1].by \in Heard(rx)
<1>1. Heard(<<>>) = {} /\ Heard(Lagged) = {}
  BY LaggedIsASeq DEF Heard, LagMark, Break
<1>2. ASSUME NEW m \in Items, NEW q \in Heard(Append(rx, m))
      PROVE  q \in IF Break(m) THEN Heard(rx) ELSE Heard(rx) \cup {m.by}
  <2>1. /\ Len(Append(rx, m)) = Len(rx) + 1 /\ Len(rx) \in Nat
        /\ \A n \in 1 .. Len(rx) : Append(rx, m)[n] = rx[n]
        /\ Append(rx, m)[Len(rx) + 1] = m
    BY AppendFacts
  <2>2. PICK n \in 1 .. Len(rx) + 1 : ~Break(Append(rx, m)[n]) /\ Append(rx, m)[n].by = q
    BY <1>2, <2>1 DEF Heard
  <2>3. n \in 1 .. Len(rx) \/ n = Len(rx) + 1
    BY <2>1
  <2>4. q \in Publishers
    BY <1>2 DEF Heard
  <2>5. QED
    BY <2>1, <2>2, <2>3, <2>4 DEF Heard
<1>3. ASSUME rx # <<>>, NEW q \in Heard(Tail(rx)) PROVE q \in Heard(rx)
  <2>1. /\ Len(rx) \in Nat \ {0} /\ Len(Tail(rx)) = Len(rx) - 1
        /\ \A n \in 1 .. Len(rx) - 1 : Tail(rx)[n] = rx[n + 1]
    BY <1>3, TailFacts
  <2>2. PICK n \in 1 .. Len(rx) - 1 : ~Break(Tail(rx)[n]) /\ Tail(rx)[n].by = q
    BY <1>3, <2>1 DEF Heard
  <2>3. n + 1 \in 1 .. Len(rx) /\ Tail(rx)[n] = rx[n + 1]
    BY <2>1
  <2>4. q \in Publishers
    BY <1>3 DEF Heard
  <2>5. QED
    BY <2>2, <2>3, <2>4 DEF Heard
<1>4. ASSUME rx # <<>>, ~Break(rx[1]) PROVE rx[1].by \in Heard(rx)
  <2>1. Len(rx) \in Nat \ {0} /\ rx[1] \in Items
    BY <1>4, TailFacts
  <2>2. rx[1].by \in Publishers /\ 1 \in 1 .. Len(rx)
    BY <1>4, <2>1 DEF Items, Messages, LagMark, Break
  <2>3. QED
    BY <1>4, <2>2 DEF Heard
<1>5. QED
  BY <1>1, <1>2, <1>3, <1>4

LEMMA HeardReceived ==
  ASSUME NEW rx \in Seq(Items), NEW m \in Messages
  PROVE  Heard(Received(rx, m)) \subseteq IF Break(m) THEN Heard(rx) ELSE Heard(rx) \cup {m.by}
<1>1. m \in Items
  BY DEF Items
<1>2. Received(rx, m) = Lagged \/ Received(rx, m) = Append(rx, m)
  BY DEF Received
<1>3. QED
  BY <1>1, <1>2, HeardFacts

(* No session joins an epoch that has begun.                               *)
LEMMA EraLess ==
  ASSUME PublisherTypes, NEW p \in Publishers, PublisherStep(p),
         Operate(p) => todo[p][1] # "resync"
  PROVE  Era' \subseteq Era
<1>1. CASE Operate(p)
  <2>1. /\ phase' = phase /\ \A q \in Publishers \ {p} : todo'[q] = todo[q]
        /\ Has(todo'[p], "resync") <=> Has(todo[p], "resync")
    BY <1>1, OperationLeaves DEF Ops
  <2>2. QED
    BY <2>1 DEF Era
<1>2. CASE ~Operate(p)
  <2>1. \A q \in Publishers \ {p} : phase'[q] = phase[q] /\ todo'[q] = todo[q]
    BY <1>2, SessionMoves
  <2>2. phase'[p] = "live" /\ ~Has(todo'[p], "resync") => phase[p] = "live" /\ todo[p] = <<>>
    BY <1>2, SessionMoves, BegunOps
  <2>3. QED
    BY <2>1, <2>2, BegunOps DEF Era
<1>3. QED
  BY <1>1, <1>2

LEMMA EraPublisher ==
  ASSUME TypeInv, PublisherInv, NEW p \in Publishers, PublisherStep(p),
         NEW l \in Listeners, EraInv(l)
  PROVE  EraInv(l)'
<1>a. /\ PublisherTypes /\ TodoInv
      /\ audio_rx[l] \in Seq(Items) /\ video_rx[l] \in Seq(Items)
      /\ task[l].epoch <= resync_epoch /\ task[l].epoch \in Nat /\ resync_epoch \in Nat
  BY TaskParts DEF TypeInv, ListenerTypes, PublisherInv
<1>b. UNCHANGED <<task, resynced>>
  BY PublisherSends
<1>c. (Resyncing(l) => task[l].timeline < task[l].epoch)'
  BY <1>b DEF EraInv, Resyncing
<1>1. CASE Operate(p) /\ todo[p][1] = "resync"
  <2>1. resync_epoch' = resync_epoch + 1
    BY <1>a, <1>1, OperationDoes
  <2>2. ~Current(l)'
    BY <1>a, <1>b, <2>1 DEF Current
  <2>3. QED
    BY <1>c, <2>2 DEF EraInv
<1>2. CASE ~(Operate(p) /\ todo[p][1] = "resync")
  <2>1. Era' \subseteq Era
    BY <1>a, <1>2, EraLess
  <2>2. resync_epoch' = resync_epoch
    BY <1>a, <1>2, OperationDoes, SessionMoves
  <2>3. Current(l)' = Current(l)
    BY <1>b, <2>2 DEF Current, Resyncing
  <2>4. /\ Heard(audio_rx'[l]) \subseteq Heard(audio_rx[l]) \cup Era
        /\ Heard(video_rx'[l]) \subseteq Heard(video_rx[l]) \cup Era
    <3>1. ASSUME Operate(p), todo[p][1] \in FrameOps PROVE p \in Era
      BY <1>a, <3>1, FrameSender DEF Era
    <3>2. CASE Operate(p) /\ SendAudio(p)
      <4>1. video_rx' = video_rx
        BY <3>2 DEF SendAudio
      <4>2. CASE audio_rx'[l] = audio_rx[l]
        BY <4>1, <4>2
      <4>3. CASE audio_rx'[l] # audio_rx[l]
        <5>1. PICK m \in Messages :
                /\ m.by = p /\ (Break(m) \/ todo[p][1] \in FrameOps)
                /\ audio_rx'[l] = Received(audio_rx[l], m)
          <6>1. PICK kind \in {"wake", "audio"} :
                  /\ todo[p][1] = IF kind = "wake" THEN "wake_audio" ELSE kind
                  /\ [kind |-> kind, by |-> p] \in Messages
                  /\ audio_rx'[l] = Received(audio_rx[l], [kind |-> kind, by |-> p])
            BY <3>2, <4>3, AudioSent
          <6>2. Break([kind |-> kind, by |-> p]) \/ todo[p][1] \in FrameOps
            BY <6>1 DEF Break, FrameOps
          <6>3. QED
            BY <6>1, <6>2
        <5>2. Heard(audio_rx'[l])
                \subseteq IF Break(m) THEN Heard(audio_rx[l]) ELSE Heard(audio_rx[l]) \cup {p}
          BY <1>a, <5>1, HeardReceived
        <5>3. QED
          BY <3>1, <3>2, <4>1, <5>1, <5>2
      <4>4. QED
        BY <4>2, <4>3
    <3>3. CASE Operate(p) /\ SendVideo(p)
      <4>1. audio_rx' = audio_rx
        BY <3>3 DEF SendVideo
      <4>2. CASE video_rx'[l] = video_rx[l]
        BY <4>1, <4>2
      <4>3. CASE video_rx'[l] # video_rx[l]
        <5>1. PICK m \in Messages :
                /\ m.by = p /\ (Break(m) \/ todo[p][1] \in FrameOps)
                /\ video_rx'[l] = Received(video_rx[l], m)
          <6>1. PICK kind \in {"wake", "key", "delta"} :
                  /\ todo[p][1] = IF kind = "wake" THEN "wake_video" ELSE kind
                  /\ [kind |-> kind, by |-> p] \in Messages
                  /\ video_rx'[l] = Received(video_rx[l], [kind |-> kind, by |-> p])
            BY <3>3, <4>3, VideoSent
          <6>2. Break([kind |-> kind, by |-> p]) \/ todo[p][1] \in FrameOps
            BY <6>1 DEF Break, FrameOps
          <6>3. QED
            BY <6>1, <6>2
        <5>2. Heard(video_rx'[l])
                \subseteq IF Break(m) THEN Heard(video_rx[l]) ELSE Heard(video_rx[l]) \cup {p}
          BY <1>a, <5>1, HeardReceived
        <5>3. QED
          BY <3>1, <3>3, <4>1, <5>1, <5>2
      <4>4. QED
        BY <4>2, <4>3
    <3>4. QED
      BY <3>2, <3>3, PublisherSends
  <2>5. Held(l)' \subseteq Held(l) \cup Era
    <3>1. Resyncing(l)' = Resyncing(l)
      BY <1>b DEF Resyncing
    <3> HIDE DEF Resyncing, Era, Heard
    <3>2. QED
      BY <1>b, <2>4, <3>1 DEF Held
  <2>6. QED
    BY <1>c, <2>1, <2>3, <2>5 DEF EraInv, Single
<1>3. QED
  BY <1>1, <1>2

LEMMA EraKept == ASSUME UNCHANGED publishers PROVE Era' = Era
  BY DEF publishers, Era

LEMMA EraListener ==
  ASSUME TypeInv, PublisherInv, NEW l \in Listeners, ListenerStep(l), IdleInv(l), EraInv(l)
  PROVE  EraInv(l)'
<1>a. /\ audio_rx[l] \in Seq(Items) /\ video_rx[l] \in Seq(Items)
      /\ task[l].epoch \in Nat /\ task[l].timeline \in Nat /\ resync_epoch \in Nat
      /\ task[l].epoch <= resync_epoch /\ task[l].timeline <= task[l].epoch
      /\ l \in DOMAIN audio_rx /\ l \in DOMAIN video_rx
  BY TaskParts DEF TypeInv, ListenerTypes
<1>b. Era' = Era /\ resync_epoch' = resync_epoch
  BY OthersKept, EraKept DEF channel
<1>c. Heard(<<>>) = {}
  BY EmptyBounded, HeardFacts
(* The step takes nothing new, and the epoch stays.                        *)
<1>1. ASSUME ~Resyncing(l)', task'[l].epoch = task[l].epoch,
             resynced'[l] => resynced[l] \/ Resyncing(l),
             Held(l)' \subseteq Held(l)
      PROVE  EraInv(l)'
  <2>1. Current(l)' => Current(l)
    BY <1>b, <1>1 DEF Current
  <2>2. QED
    BY <1>b, <1>1, <2>1 DEF EraInv, Single
<1>2. ASSUME ~Resyncing(l)', ~resynced'[l] PROVE EraInv(l)'
  BY <1>2 DEF EraInv, Current
<1>3. CASE Setup(l) \/ Play(l)
  <2>1. ~Resyncing(l)' /\ ~resynced'[l]
    BY <1>3, Moving DEF Setup, Play, history, Resyncing, IdleInv
  <2>2. QED
    BY <1>2, <2>1
<1>4. CASE LoadEpoch(l)
  <2>1. ~Resyncing(l)' /\ ~resynced'[l]
    BY <1>4, EpochMoves DEF LoadEpoch, history, Resyncing, IdleInv
  <2>2. QED
    BY <1>2, <2>1
<1>5. CASE Top(l)
  <2>a. UNCHANGED <<audio_rx, video_rx, resynced>> /\ task[l].at = "top"
    BY <1>5 DEF Top, receivers, history, At
  <2>1. CASE task[l].epoch = resync_epoch
    <3>1. /\ task'[l].at = "backlog" /\ task'[l].epoch = task[l].epoch
          /\ task'[l].timeline = task[l].timeline /\ task'[l].anchor = task[l].anchor
      BY <1>5, <2>1, EpochMoves
    <3>2. ~Resyncing(l)' /\ Held(l)' = Held(l)
      BY <2>a, <3>1 DEF Resyncing, Held, Heard
    <3>3. QED
      BY <1>1, <2>a, <3>1, <3>2
  <2>2. CASE task[l].epoch # resync_epoch
    <3>1. /\ task'[l].at = "resync_audio" /\ task'[l].epoch = resync_epoch
          /\ task'[l].timeline = task[l].timeline
      BY <1>5, <2>2, EpochMoves
    <3>2. task'[l].timeline < task'[l].epoch
      BY <1>a, <2>2, <3>1
    <3>3. task'[l].timeline # task'[l].epoch
      BY <1>a, <3>1, <3>2
    <3>4. Held(l)' = {}
      BY <3>1, <3>3 DEF Held, Resyncing
    <3>5. Single(Era)
      BY EraSingle DEF PublisherInv
    <3>6. QED
      BY <1>b, <3>2, <3>4, <3>5 DEF EraInv, Single
  <2>3. QED
    BY <2>1, <2>2
<1>6. CASE ResyncAudio(l)
  <2>1. /\ Kept(l) /\ task[l].at = "resync_audio" /\ task'[l].at = "resync_video"
        /\ audio_rx'[l] = <<>> /\ UNCHANGED resynced
    BY <1>a, <1>6, Moving DEF ResyncAudio, SubscribeAudio, history
  <2>2. Held(l)' \subseteq Held(l)
    BY <1>c, <2>1 DEF Held, Resyncing, Kept, Heard
  <2>3. Current(l)' = Current(l) /\ Resyncing(l)
    BY <1>b, <2>1 DEF Current, Resyncing, Kept
  <2>4. QED
    BY <1>b, <2>1, <2>2, <2>3 DEF EraInv, Single, Kept
<1>7. CASE ResyncVideo(l)
  <2>1. /\ KeptBut(l, None, FALSE)
        /\ task[l].at = "resync_video" /\ task'[l].at = "backlog"
        /\ video_rx'[l] = <<>> /\ audio_rx' = audio_rx
    BY <1>a, <1>7, PictureMoves DEF ResyncVideo, SubscribeVideo
  <2>2. Heard(audio_rx[l])' = Heard(audio_rx[l]) /\ Heard(video_rx[l])' = {}
    BY <1>c, <2>1 DEF Heard
  <2>3. Held(l)' \subseteq Held(l)
    BY <2>1, <2>2 DEF Held, Resyncing, KeptBut
  <2>4. ~Resyncing(l)' /\ Resyncing(l)
    BY <2>1 DEF Resyncing
  <2>5. QED
    BY <1>1, <2>1, <2>3, <2>4 DEF KeptBut
<1>8. ASSUME ~Resyncing(l), ~Resyncing(l)', task'[l].epoch = task[l].epoch,
             UNCHANGED resynced,
             task'[l].at \in {"audio", "video", "frame"} =>
               task'[l].hand.by \in Held(l),
             \/ /\ task'[l].timeline = task[l].timeline /\ task'[l].anchor = task[l].anchor
             \/ task'[l].anchor \in Held(l),
             Heard(audio_rx'[l]) \subseteq Heard(audio_rx[l]),
             Heard(video_rx'[l]) \subseteq Heard(video_rx[l])
      PROVE  EraInv(l)'
  <2>1. Held(l)' \subseteq Held(l)
    BY <1>8 DEF Held, Resyncing
  <2>2. QED
    BY <1>1, <1>8, <2>1
<1>9. CASE DropBacklog(l) \/ Arm(l) \/ Silence(l) \/ Report(l)
  <2>1. /\ Kept(l) /\ UNCHANGED <<video_rx, resynced>>
        /\ audio_rx'[l] = audio_rx[l] \/ audio_rx'[l] = <<>>
    BY <1>a, <1>9, Moving
    DEF DropBacklog, SubscribeAudio, Arm, Silence, Report, receivers, history
  <2>2. /\ ~Resyncing(l) /\ ~Resyncing(l)'
        /\ task'[l].at \notin {"audio", "video", "frame"}
    BY <1>9, Moving DEF Resyncing
  <2>3. QED
    BY <1>8, <1>c, <2>1, <2>2 DEF Kept
<1>10. CASE SyncStreamer(l) \/ SyncVideo(l)
  <2>1. /\ UNCHANGED <<audio_rx, video_rx, resynced>>
        /\ task'[l].epoch = task[l].epoch
        /\ task'[l].timeline = task[l].timeline /\ task'[l].anchor = task[l].anchor
    BY <1>10, PictureMoves DEF SyncStreamer, SyncVideo, receivers, history, Kept, KeptBut
  <2>2. /\ ~Resyncing(l) /\ ~Resyncing(l)'
        /\ task'[l].at \notin {"audio", "video", "frame"}
    BY <1>10, PictureMoves DEF Resyncing
  <2>3. QED
    BY <1>8, <2>1, <2>2
<1>11. CASE TakeAudio(l)
  <2>1. /\ task[l].at = "select" /\ UNCHANGED <<video_rx, resynced>>
        /\ audio_rx[l] # <<>> /\ audio_rx'[l] = Tail(audio_rx[l])
        /\ task'[l].epoch = task[l].epoch /\ task'[l].at \in {"top", "audio"}
        /\ task'[l].timeline = task[l].timeline /\ task'[l].anchor = task[l].anchor
        /\ task'[l].at = "audio" =>
             audio_rx[l][1].kind = "audio" /\ task'[l].hand = audio_rx[l][1]
    BY <1>11, AudioTaken DEF Kept
  <2>2. Heard(audio_rx'[l]) \subseteq Heard(audio_rx[l])
    BY <1>a, <2>1, HeardFacts
  <2>3. audio_rx[l][1].kind = "audio" => audio_rx[l][1].by \in Heard(audio_rx[l])
    BY <1>a, <2>1, HeardFacts DEF Break
  <2>4. ~Resyncing(l) /\ ~Resyncing(l)' /\ Heard(audio_rx[l]) \subseteq Held(l)
    BY <2>1 DEF Resyncing, Held
  <2>5. QED
    BY <1>8, <2>1, <2>2, <2>3, <2>4
<1>12. CASE TakeVideo(l)
  <2>1. /\ task[l].at = "select" /\ UNCHANGED <<audio_rx, resynced>>
        /\ video_rx[l] # <<>> /\ video_rx'[l] = Tail(video_rx[l])
        /\ task'[l].epoch = task[l].epoch /\ task'[l].at \in {"top", "video"}
        /\ task'[l].timeline = task[l].timeline /\ task'[l].anchor = task[l].anchor
        /\ task'[l].at = "video" =>
             ~Break(video_rx[l][1]) /\ task'[l].hand = video_rx[l][1]
    BY <1>12, VideoTaken
  <2>2. Heard(video_rx'[l]) \subseteq Heard(video_rx[l])
    BY <1>a, <2>1, HeardFacts
  <2>3. ~Break(video_rx[l][1]) => video_rx[l][1].by \in Heard(video_rx[l])
    BY <1>a, <2>1, HeardFacts
  <2>4. ~Resyncing(l) /\ ~Resyncing(l)' /\ Heard(video_rx[l]) \subseteq Held(l)
    BY <2>1 DEF Resyncing, Held
  <2>5. QED
    BY <1>8, <2>1, <2>2, <2>3, <2>4
<1>13. ASSUME task[l].at \in {"audio", "frame"} PROVE Anchored(task[l]) \in Held(l)
  BY <1>13 DEF Anchored, Held
<1>14. CASE HandleAudio(l)
  <2>1. UNCHANGED <<audio_rx, video_rx, resynced>>
    BY <1>14 DEF HandleAudio, receivers, history
  <2>2. /\ task[l].at = "audio" /\ task'[l].at = "top" /\ task'[l].epoch = task[l].epoch
        /\ \/ /\ task'[l].timeline = task[l].timeline /\ task'[l].anchor = task[l].anchor
           \/ task'[l].anchor = Anchored(task[l])
    BY <1>14, AudioHandled
  <2>3. ~Resyncing(l) /\ ~Resyncing(l)'
    BY <2>2 DEF Resyncing
  <2>4. QED
    BY <1>8, <1>13, <2>1, <2>2, <2>3
<1>15. CASE CheckStreamer(l) \/ Skip(l) \/ Expire(l)
  <2>1. /\ UNCHANGED <<audio_rx, resynced>>
        /\ UNCHANGED video_rx \/ video_rx'[l] = <<>>
    BY <1>15, VideoHandled DEF CheckStreamer, Skip, Expire, receivers
  <2>2. /\ task[l].at \in {"video", "frame"} /\ task'[l].at \in {"top", "frame"}
        /\ task'[l].epoch = task[l].epoch
        /\ task'[l].timeline = task[l].timeline /\ task'[l].anchor = task[l].anchor
        /\ task'[l].at = "frame" => task'[l].hand = task[l].hand
    BY <1>15, VideoHandled DEF Kept
  <2>3. ~Resyncing(l) /\ ~Resyncing(l)' /\ task[l].hand.by \in Held(l)
    BY <2>2 DEF Resyncing, Held
  <2>4. Heard(video_rx'[l]) \subseteq Heard(video_rx[l])
    BY <1>c, <2>1
  <2>5. QED
    BY <1>8, <2>1, <2>2, <2>3, <2>4
<1>16. CASE HandleVideo(l)
  <2>1. UNCHANGED <<audio_rx, video_rx, resynced>>
    BY <1>16 DEF HandleVideo, receivers
  <2>2. /\ task[l].at = "frame" /\ task'[l].at = "top" /\ task'[l].epoch = task[l].epoch
        /\ \/ /\ task'[l].timeline = task[l].timeline /\ task'[l].anchor = task[l].anchor
           \/ task'[l].anchor = Anchored(task[l])
    BY <1>16, PictureSent
  <2>3. ~Resyncing(l) /\ ~Resyncing(l)'
    BY <2>2 DEF Resyncing
  <2>4. QED
    BY <1>8, <1>13, <2>1, <2>2, <2>3
<1>17. CASE End(l)
  <2>1. ~Resyncing(l)' /\ ~resynced'[l]
    BY <1>17, Ended DEF Resyncing
  <2>2. QED
    BY <1>2, <2>1
<1>18. QED
  BY <1>3, <1>4, <1>5, <1>6, <1>7, <1>9, <1>10, <1>11, <1>12, <1>14, <1>15, <1>16, <1>17
  DEF ListenerStep, Turn
-----------------------------------------------------------------------------
(* Gaps.  While a task shows the video, a frame it missed since its        *)
(* keyframe, or a video that is not active any more, has a resync coming.  *)

Coming(l) == task[l].epoch # resync_epoch \/ \E p \in Publishers : Has(todo[p], "resync")

GapInv(l) ==
  ~Resyncing(l) /\ task[l].last_state = "Video" =>
    /\ ~video_active => Coming(l)
    /\ gap[l] /\ task[l].seen_keyframe => Coming(l)

LEMMA ComingIsDue ==
  ASSUME TypeInv, NEW l
  PROVE  Coming(l) <=> ResyncDue(l)
<1>1. \A p \in Publishers : DOMAIN todo[p] = 1 .. Len(todo[p])
  BY LenProperties DEF TypeInv, PublisherTypes
<1>2. QED
  BY <1>1 DEF Coming, ResyncDue, Has

LEMMA GapInit == Init => \A l \in Listeners : GapInv(l)
  BY RelayAssumption DEF Init, GapInv, NoTask, Pictures

(* A session that deactivates the video has its resync right after it.     *)
LEMMA ResyncFollows ==
  ASSUME PublisherTypes, TodoInv, NEW p \in Publishers, Has(todo[p], "deactivate")
  PROVE  Has(todo[p], "resync")
<1>1. todo[p] \in Seq(Ops) /\ Len(todo[p]) \in Nat
  BY LenProperties DEF PublisherTypes
<1>2. PICK n \in 1 .. Len(todo[p]) : todo[p][n] = "deactivate"
  BY DEF Has
<1>3. n + 1 \in 1 .. Len(todo[p]) /\ todo[p][n + 1] = "resync"
  BY <1>1, <1>2 DEF TodoInv, TodoOK
<1>4. QED
  BY <1>3 DEF Has

LEMMA NobodyStreams ==
  ASSUME PublisherTypes, PublisherInv, ~streamer, video_active
  PROVE  \E p \in Publishers : Has(todo[p], "resync")
<1>1. \A p \in Publishers : phase[p] # "live"
  BY DEF PublisherInv, FlagInv, Holds
<1>2. PICK p \in Publishers : Has(todo[p], "deactivate")
  BY <1>1 DEF PublisherInv, ActiveInv
<1>3. QED
  BY <1>2, ResyncFollows DEF PublisherInv

LEMMA GapPublisher ==
  ASSUME TypeInv, PublisherInv, NEW p \in Publishers, PublisherStep(p),
         NEW l \in Listeners, GapInv(l)
  PROVE  GapInv(l)'
<1>a. /\ PublisherTypes /\ TodoInv
      /\ task[l].epoch <= resync_epoch /\ task[l].epoch \in Nat /\ resync_epoch \in Nat
  BY TaskParts DEF TypeInv, PublisherInv
<1>b. UNCHANGED <<task, gap>>
  BY PublisherSends
<1>1. CASE Operate(p) /\ todo[p][1] = "resync"
  <2>1. resync_epoch' = resync_epoch + 1
    BY <1>a, <1>1, OperationDoes
  <2>2. Coming(l)'
    BY <1>a, <1>b, <2>1 DEF Coming
  <2>3. QED
    BY <2>2 DEF GapInv
<1>2. CASE Operate(p) /\ todo[p][1] # "resync"
  <2>1. /\ \A q \in Publishers \ {p} : todo'[q] = todo[q]
        /\ Has(todo'[p], "resync") <=> Has(todo[p], "resync")
    BY <1>a, <1>2, OperationLeaves DEF Ops
  <2>2. resync_epoch' = resync_epoch
    BY <1>a, <1>2, OperationDoes
  <2>3. Coming(l)' <=> Coming(l)
    BY <1>b, <2>1, <2>2 DEF Coming
  <2>4. CASE todo[p][1] = "deactivate"
    <3>1. 1 \in 1 .. Len(todo[p])
      BY <1>a, <1>2, OperationLeaves
    <3>2. Has(todo[p], "deactivate")
      BY <2>4, <3>1 DEF Has
    <3>3. Coming(l)'
      BY <1>a, <2>3, <3>2, ResyncFollows DEF Coming
    <3>4. QED
      BY <3>3 DEF GapInv
  <2>5. CASE todo[p][1] # "deactivate"
    <3>1. video_active' \/ (video_active' <=> video_active)
      BY <1>a, <1>2, <2>5, OperationDoes, Zenon
    <3>2. QED
      BY <1>b, <2>3, <3>1, Zenon DEF GapInv, Resyncing
  <2>6. QED
    BY <2>4, <2>5
<1>3. CASE ~Operate(p)
  <2>1. /\ \A q \in Publishers \ {p} : todo'[q] = todo[q]
        /\ UNCHANGED <<video_active, resync_epoch>>
    BY <1>a, <1>3, SessionMoves
  <2>2. ~Has(todo[p], "resync")
    <3>1. phase[p] \in {"new", "counting"} => todo[p] = <<>>
      BY <1>a DEF TodoInv, TodoOK
    <3>2. todo[p] = <<>>
      BY <1>a, <1>3, <3>1, SessionMoves
    <3>3. QED
      BY <3>2, BegunOps
  <2>3. Coming(l) => Coming(l)'
    BY <1>b, <2>1, <2>2 DEF Coming
  <2>4. QED
    BY <1>b, <2>1, <2>3, Zenon DEF GapInv, Resyncing
<1>4. QED
  BY <1>1, <1>2, <1>3

LEMMA GapListener ==
  ASSUME TypeInv, PublisherInv, NEW l \in Listeners, ListenerStep(l), IdleInv(l), GapInv(l)
  PROVE  GapInv(l)'
<1>a. /\ video_active' <=> video_active
      /\ resync_epoch' = resync_epoch /\ todo' = todo /\ PublisherTypes
      /\ l \in DOMAIN gap
  BY OthersKept, Zenon DEF channel, publishers, TypeInv, ListenerTypes
<1>b. task'[l].epoch = task[l].epoch => (Coming(l)' <=> Coming(l))
  BY <1>a DEF Coming
<1>c. None # "Video" /\ "Offline" # "Video" /\ "AudioOnly" # "Video"
  BY RelayAssumption DEF Pictures
<1>1. ASSUME task'[l].last_state # "Video" \/ Resyncing(l)' PROVE GapInv(l)'
  BY <1>1 DEF GapInv
(* The picture stays, and nothing is missed behind an open gate.           *)
<1>2. ASSUME ~Resyncing(l), task'[l].epoch = task[l].epoch,
             task'[l].last_state = task[l].last_state,
             \/ ~task'[l].seen_keyframe
             \/ gap'[l] => gap[l] /\ (task'[l].seen_keyframe => task[l].seen_keyframe)
             \/ Coming(l)
      PROVE  GapInv(l)'
  BY <1>a, <1>b, <1>2, Zenon DEF GapInv
<1>3. CASE Setup(l) \/ Play(l) \/ LoadEpoch(l)
  <2>1. task'[l].last_state = None
    BY <1>3, Moving, EpochMoves DEF Kept, IdleInv
  <2>2. QED
    BY <1>1, <1>c, <2>1
<1>4. CASE Top(l)
  <2>1. CASE task[l].epoch = resync_epoch
    <3>1. /\ task[l].at = "top" /\ task'[l].epoch = task[l].epoch /\ UNCHANGED gap
          /\ task'[l].last_state = task[l].last_state
          /\ task'[l].seen_keyframe = task[l].seen_keyframe
      BY <1>4, <2>1, EpochMoves DEF Top, history
    <3>2. ~Resyncing(l)
      BY <3>1 DEF Resyncing
    <3>3. QED
      BY <1>2, <3>1, <3>2, Zenon
  <2>2. CASE task[l].epoch # resync_epoch
    <3>1. Resyncing(l)'
      BY <1>4, <2>2, EpochMoves DEF Resyncing
    <3>2. QED
      BY <1>1, <3>1
  <2>3. QED
    BY <2>1, <2>2
<1>5. CASE ResyncAudio(l)
  <2>1. Resyncing(l)'
    BY <1>5, Moving DEF Resyncing
  <2>2. QED
    BY <1>1, <2>1
<1>6. CASE ResyncVideo(l)
  <2>1. task'[l].last_state = None
    BY <1>6, PictureMoves DEF KeptBut
  <2>2. QED
    BY <1>1, <1>c, <2>1
<1>7. CASE DropBacklog(l) \/ Arm(l) \/ Silence(l) \/ Report(l)
  <2>1. Kept(l) /\ UNCHANGED gap /\ ~Resyncing(l)
    BY <1>7, Moving DEF DropBacklog, Arm, Silence, Report, history, Resyncing
  <2>2. QED
    BY <1>2, <2>1, Zenon DEF Kept
<1>8. CASE SyncStreamer(l)
  <2>1. CASE streamer
    <3>1. Kept(l) /\ UNCHANGED gap /\ ~Resyncing(l)
      BY <1>8, <2>1, PictureMoves DEF SyncStreamer, history, Resyncing
    <3>2. QED
      BY <1>2, <3>1, Zenon DEF Kept
  <2>2. CASE ~streamer
    BY <1>1, <1>8, <1>c, <2>2, PictureMoves DEF KeptBut
  <2>3. QED
    BY <2>1, <2>2
<1>9. CASE SyncVideo(l)
  <2>1. CASE ~video_active
    BY <1>1, <1>9, <1>c, <2>1, PictureMoves DEF KeptBut
  <2>2. CASE video_active
    <3>1. /\ KeptBut(l, "Video", IF task[l].last_state = "Video"
                                   THEN task[l].seen_keyframe ELSE FALSE)
          /\ UNCHANGED gap /\ ~Resyncing(l)
      BY <1>9, <2>2, PictureMoves DEF SyncVideo, history, Resyncing
    <3>2. CASE task[l].last_state = "Video"
      BY <1>2, <3>1, <3>2, Zenon DEF KeptBut
    <3>3. CASE task[l].last_state # "Video"
      <4>1. ~task'[l].seen_keyframe
        BY <3>1, <3>3, Zenon DEF KeptBut
      <4>2. QED
        BY <1>a, <2>2, <4>1, Zenon DEF GapInv
    <3>4. QED
      BY <3>2, <3>3
  <2>3. QED
    BY <2>1, <2>2
<1>10. CASE TakeAudio(l)
  <2>1. /\ ~Resyncing(l) /\ UNCHANGED gap /\ task'[l].epoch = task[l].epoch
        /\ task'[l].last_state = task[l].last_state
        /\ task'[l].seen_keyframe = task[l].seen_keyframe
    BY <1>10, AudioTaken DEF Kept, Resyncing
  <2>2. QED
    BY <1>2, <2>1, Zenon
<1>11. CASE TakeVideo(l)
  <2>1. ~Resyncing(l) /\ task'[l].epoch = task[l].epoch
    BY <1>11, VideoTaken DEF Resyncing
  <2>2. CASE Break(video_rx[l][1])
    <3>1. ~task'[l].seen_keyframe /\ task'[l].last_state \in {None, task[l].last_state}
      BY <1>11, <2>2, VideoTaken
    <3>2. CASE task'[l].last_state = task[l].last_state
      BY <1>2, <2>1, <3>1, <3>2, Zenon
    <3>3. CASE task'[l].last_state = None
      BY <1>1, <1>c, <3>3
    <3>4. QED
      BY <3>1, <3>2, <3>3
  <2>3. CASE ~Break(video_rx[l][1])
    <3>1. /\ gap'[l] = (gap[l] \/ video_rx[l] = Lagged) /\ video_rx[l] # Lagged
          /\ task'[l].last_state = task[l].last_state
          /\ task'[l].seen_keyframe = task[l].seen_keyframe
      BY <1>11, <2>3, VideoTaken
    <3>2. QED
      BY <1>2, <2>1, <3>1, Zenon
  <2>4. QED
    BY <2>2, <2>3
<1>12. CASE HandleAudio(l)
  <2>1. /\ ~Resyncing(l) /\ UNCHANGED gap /\ task'[l].epoch = task[l].epoch
        /\ task'[l].last_state = task[l].last_state
        /\ task'[l].seen_keyframe = task[l].seen_keyframe
    BY <1>12, AudioHandled DEF HandleAudio, history, Resyncing
  <2>2. QED
    BY <1>2, <2>1, Zenon
<1>13. CASE CheckStreamer(l)
  <2>1. /\ ~Resyncing(l) /\ task'[l].epoch = task[l].epoch
        /\ task'[l].last_state = task[l].last_state
        /\ task'[l].seen_keyframe = task[l].seen_keyframe
    BY <1>13, VideoHandled DEF Kept, Resyncing
  <2>2. CASE streamer
    <3>1. UNCHANGED gap
      BY <1>13, <2>2, VideoHandled
    <3>2. QED
      BY <1>2, <2>1, <3>1, Zenon
  <2>3. CASE ~streamer
    <3>1. CASE video_active
      <4>1. Coming(l)
        BY <1>a, <2>3, <3>1, NobodyStreams DEF Coming
      <4>2. QED
        BY <1>2, <2>1, <4>1, Zenon
    <3>2. CASE ~video_active
      BY <1>a, <1>b, <2>1, <3>2, Zenon DEF GapInv
    <3>3. QED
      BY <3>1, <3>2
  <2>4. QED
    BY <2>2, <2>3
<1>14. CASE Skip(l)
  <2>1. /\ ~Resyncing(l) /\ ~video_active /\ task'[l].epoch = task[l].epoch
        /\ task'[l].last_state = task[l].last_state
    BY <1>14, VideoHandled DEF Resyncing
  <2>2. QED
    BY <1>a, <1>b, <2>1, Zenon DEF GapInv
<1>15. CASE Expire(l)
  <2>1. /\ ~Resyncing(l) /\ task'[l].epoch = task[l].epoch
        /\ task'[l].last_state = task[l].last_state /\ ~task'[l].seen_keyframe
    BY <1>15, VideoHandled DEF Resyncing
  <2>2. QED
    BY <1>2, <2>1, Zenon
<1>16. CASE HandleVideo(l)
  <2>1. /\ ~Resyncing(l) /\ video_active /\ task'[l].epoch = task[l].epoch
        /\ task'[l].last_state = "Video"
    BY <1>16, PictureSent DEF Resyncing
  <2>2. CASE Gated(task[l])
    <3>1. ~task'[l].seen_keyframe
      BY <1>16, <2>2, PictureSent
    <3>2. QED
      BY <1>a, <2>1, <3>1, Zenon DEF GapInv
  <2>3. CASE ~Gated(task[l])
    <3>1. gap'[l] = (gap[l] /\ task[l].hand.kind = "delta")
      BY <1>16, <2>3, PictureSent
    <3>2. gap'[l] => task[l].seen_keyframe /\ task[l].last_state = "Video" /\ gap[l]
      BY <2>3, <3>1, Zenon DEF Gated
    <3>3. QED
      BY <1>a, <1>b, <2>1, <3>2, Zenon DEF GapInv
  <2>4. QED
    BY <2>2, <2>3
<1>17. CASE End(l)
  BY <1>1, <1>17, <1>c, Ended
<1>18. QED
  BY <1>3, <1>4, <1>5, <1>6, <1>7, <1>8, <1>9, <1>10, <1>11, <1>12, <1>13, <1>14, <1>15,
     <1>16, <1>17
  DEF ListenerStep, Turn
-----------------------------------------------------------------------------
(* The inductive invariant.                                                *)

ListenerInv(l) == IdleInv(l) /\ SessionInv(l) /\ EraInv(l) /\ GapInv(l)

IInv ==
  /\ TypeInv
  /\ PublisherInv
  /\ \A l \in Listeners : ListenerInv(l)

(* What a listener's invariant depends on.                                 *)
LEMMA ListenerKept ==
  ASSUME NEW k,
         UNCHANGED <<task[k], audio_rx[k], video_rx[k], shown[k], gap[k], resynced[k]>>,
         UNCHANGED <<channel, publishers>>, ListenerInv(k)
  PROVE  ListenerInv(k)'
<1>1. /\ Feeding' = Feeding /\ Era' = Era
      /\ resync_epoch' = resync_epoch /\ video_active' = video_active /\ todo' = todo
  BY FeedingKept, EraKept DEF channel, publishers
<1>2. /\ task'[k] = task[k] /\ audio_rx'[k] = audio_rx[k] /\ video_rx'[k] = video_rx[k]
      /\ shown'[k] = shown[k] /\ gap'[k] = gap[k] /\ resynced'[k] = resynced[k]
  OBVIOUS
<1>3. IdleInv(k)'
  BY <1>2 DEF ListenerInv, IdleInv
<1>4. SessionInv(k)'
  <2>1. Working(k)' = Working(k)
    BY <1>2 DEF Working
  <2>2. QED
    BY <1>1, <1>2, <2>1 DEF ListenerInv, SessionInv
<1>5. EraInv(k)'
  <2>1. (Resyncing(k)' <=> Resyncing(k)) /\ (Current(k)' <=> Current(k))
    BY <1>1, <1>2, Zenon DEF Resyncing, Current
  <2>2. Heard(audio_rx[k])' = Heard(audio_rx[k]) /\ Heard(video_rx[k])' = Heard(video_rx[k])
    BY <1>2 DEF Heard
  <2>3. Held(k)' = Held(k)
    BY <1>2, <2>1, <2>2 DEF Held
  <2>4. QED
    BY <1>1, <1>2, <2>1, <2>3 DEF ListenerInv, EraInv
<1>6. GapInv(k)'
  <2>1. (Resyncing(k)' <=> Resyncing(k)) /\ (Coming(k)' <=> Coming(k))
    BY <1>1, <1>2, Zenon DEF Resyncing, Coming
  <2>2. QED
    BY <1>1, <1>2, <2>1, Zenon DEF ListenerInv, GapInv
<1>7. QED
  BY <1>3, <1>4, <1>5, <1>6 DEF ListenerInv

LEMMA Initially == Init => IInv
  BY TypeInit, PublisherInit, IdleInit, SessionInit, EraInit, GapInit DEF IInv, ListenerInv

LEMMA Inductive == IInv /\ [Next]_vars => IInv'
<1> SUFFICES ASSUME IInv, [Next]_vars PROVE IInv'
  OBVIOUS
<1>1. TypeInv /\ PublisherInv /\ TypeInv' /\ PublisherInv'
  BY TypeStep, PublisherInvStep DEF IInv
<1>2. ASSUME NEW k \in Listeners PROVE ListenerInv(k)
  BY DEF IInv
<1>3. ASSUME NEW p \in Publishers, PublisherStep(p), NEW k \in Listeners
      PROVE  ListenerInv(k)'
  BY <1>1, <1>2, <1>3, IdlePublisher, SessionPublisher, EraPublisher, GapPublisher
  DEF ListenerInv
<1>4. ASSUME NEW l \in Listeners, ListenerStep(l), NEW k \in Listeners
      PROVE  ListenerInv(k)'
  <2>1. CASE k = l
    BY <1>1, <1>2, <1>4, <2>1, IdleListener, SessionListener, EraListener, GapListener
    DEF ListenerInv
  <2>2. CASE k # l
    BY <1>1, <1>2, <1>4, <2>2, OthersKept, ListenerKept
  <2>3. QED
    BY <2>1, <2>2
<1>5. ASSUME UNCHANGED vars, NEW k \in Listeners PROVE ListenerInv(k)'
  <2>1. /\ UNCHANGED <<task[k], audio_rx[k], video_rx[k], shown[k], gap[k], resynced[k]>>
        /\ UNCHANGED <<channel, publishers>>
    BY <1>5 DEF vars, receivers, history
  <2>2. QED
    BY <1>2, <2>1, ListenerKept
<1>6. \A k \in Listeners : ListenerInv(k)'
  BY <1>3, <1>4, <1>5 DEF Next, PublisherStep, ListenerStep
<1>7. QED
  BY <1>1, <1>6 DEF IInv

LEMMA Invariance == Spec => []IInv
  BY Initially, Inductive, PTL DEF Spec
-----------------------------------------------------------------------------
(* A receiver never holds more than its buffer, and a task's epochs are    *)
(* epochs of its channel, whatever publishers and listeners do.            *)
THEOREM TypeCorrect == Spec => []TypeOK
<1>1. ASSUME IInv PROVE TypeOK
  <2>1. TypeInv
    BY <1>1 DEF IInv
  <2>2. ASSUME NEW l \in Listeners
        PROVE  /\ task[l].hand \in Messages \cup {None}
               /\ task[l].last_state \in Pictures \cup {None}
               /\ task[l].epoch \in 0 .. resync_epoch
               /\ task[l].timeline \in 0 .. task[l].epoch
    <3>1. task[l] \in Task
      BY <2>1, TaskParts
    <3>2. QED
      BY <2>1, <3>1, TaskParts DEF Task
  <2>3. QED
    BY <2>1, <2>2 DEF TypeInv, PublisherTypes, ListenerTypes, Bounded, TypeOK
<1>2. QED
  BY Invariance, <1>1, PTL

(* A delta frame goes out only after a frame of its own session: whatever  *)
(* the publishers' hand-overs, lags and wake-ups, the keyframe gate of     *)
(* VideoRtpTrack is closed when the publisher changes.                     *)
THEOREM NoForeign == Spec => []NoForeignDelta
<1>1. ASSUME IInv PROVE NoForeignDelta
  <2> SUFFICES ASSUME NEW l \in Listeners, SendingDelta(l)
               PROVE  shown[l] = task[l].hand.by
    BY DEF NoForeignDelta
  <2>1. task[l].at = "frame" /\ task[l].seen_keyframe
    BY DEF SendingDelta, Sending, At, Gated
  <2>2. shown[l] \in Working(l) /\ task[l].hand.by \in Working(l)
    BY <2>1 DEF Working
  <2>3. Single(Working(l))
    <3>1. video_rx[l] \in Seq(Items) /\ Apart(video_rx[l], Working(l), Feeding)
      BY <1>1 DEF IInv, TypeInv, ListenerTypes, ListenerInv, SessionInv
    <3>2. QED
      BY <3>1, ApartWorking
  <2>4. QED
    BY <2>2, <2>3 DEF Single
<1>2. QED
  BY Invariance, <1>1, PTL

(* A frame is timed against a frame of its own session, in every task that *)
(* has resynchronised in the epoch of the channel.                         *)
THEOREM OwnAnchorHolds == Spec => []OwnAnchor
<1>1. ASSUME IInv PROVE OwnAnchor
  <2> SUFFICES ASSUME NEW l \in Listeners, Sending(l), resynced[l],
                      task[l].epoch = resync_epoch
               PROVE  OwnTime(l)
    BY DEF OwnAnchor
  <2>1. task[l].at \in {"audio", "frame"}
    BY DEF Sending, At
  <2>2. task[l] \in Task /\ task[l].hand \in Messages
    BY <1>1, <2>1, TaskParts DEF IInv, TypeInv, TaskOK
  <2>3. Single(Held(l))
    BY <1>1 DEF IInv, ListenerInv, EraInv, Current, Single
  <2>4. task[l].hand.by \in Held(l) /\ Anchored(task[l]) \in Held(l)
    BY <2>1 DEF Held, Anchored
  <2>5. Anchored(task[l]) = task[l].hand.by
    BY <2>3, <2>4 DEF Single
  <2>6. Mapped(task[l]).anchor = Anchored(task[l])
    BY <2>2, SentFields
  <2>7. QED
    BY <2>5, <2>6 DEF OwnTime
<1>2. QED
  BY Invariance, <1>1, PTL

(* A delta frame goes out only if every frame since its keyframe did, or a *)
(* resync that repairs the picture is on its way.                          *)
THEOREM NoGapHolds == Spec => []NoGap
<1>1. ASSUME IInv PROVE NoGap
  <2> SUFFICES ASSUME NEW l \in Listeners, SendingDelta(l), gap[l]
               PROVE  ResyncDue(l)
    BY DEF NoGap
  <2>1. task[l].at = "frame" /\ task[l].seen_keyframe /\ task[l].last_state = "Video"
    BY DEF SendingDelta, Sending, At, Gated
  <2>2. ~Resyncing(l)
    BY <2>1 DEF Resyncing
  <2>3. Coming(l)
    BY <1>1, <2>1, <2>2 DEF IInv, ListenerInv, GapInv
  <2>4. QED
    BY <1>1, <2>3, ComingIsDue DEF IInv
<1>2. QED
  BY Invariance, <1>1, PTL
=============================================================================
