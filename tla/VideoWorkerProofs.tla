-------------------------- MODULE VideoWorkerProofs --------------------------
(***************************************************************************)
(* Proofs about VideoWorker: whatever the order of sources, placeholders,  *)
(* changes of quality, congestions and failures, no frame of a source that *)
(* was replaced is drawn, packets have the announced quality, a gap always *)
(* has a key frame coming, and the timer of a worker that may draw is set. *)
(***************************************************************************)
EXTENDS VideoWorker, SequenceTheorems, TLAPS

-----------------------------------------------------------------------------
(* What the variables hold.                                                *)

Types ==
  {"none", "init", "source", "reconfigure", "placeholder", "resume", "close",
   "transport-pause", "transport-resume", "ready", "source-ready", "reconfigured",
   "reconfigure-error", "packet", "error", "closed"}

Messages ==
  [type : Types, source : Sources \cup {0}, quality : Qualities \cup {None}, key : BOOLEAN]

Steps == {"idle", "init", "source", "placeholder", "support", "flush"}

WorkerStates ==
  [closed : BOOLEAN, paused : BOOLEAN, networkPaused : BOOLEAN, placeholder : BOOLEAN,
   rendered : BOOLEAN, buffer : Seq(Sources), reader : Sources \cup {0}, loops : SUBSET Sources,
   timer : BOOLEAN, clock : {"none", "fresh", "stale"}, force : BOOLEAN,
   canvas : Sources \cup {0}, config : Qualities \cup {None}, queue : Seq(Messages),
   doing : Steps, call : Messages]

Pages ==
  [phase : {"starting", "ready", "closing", "terminated"}, source : Sources \cup {0},
   quality : Qualities \cup {None}]

ShapeInv ==
  /\ page \in Pages /\ congested \in BOOLEAN
  /\ wire \in [quality : Qualities, gap : BOOLEAN]
  /\ spent \in [sources : 0 .. MaxSources, changes : Nat, polls : Nat]
  /\ inbox \in Seq(Messages) /\ outbox \in Seq(Messages)
  /\ worker \in WorkerStates
  /\ accepted \in Sources \cup {0}
-----------------------------------------------------------------------------
(* Of a worker w that last said it shows source a.                         *)

(* A worker without an encoder, closed or not loaded, has nothing running. *)
Silent(w) ==
  /\ w.reader = 0 /\ w.loops = {} /\ ~w.timer /\ w.clock = "none"
  /\ w.placeholder /\ w.queue = <<>> /\ w.config = None

(* The next frames are of a, and nothing is read while it is replaced.     *)
ShowsOnly(w, a) ==
  /\ w.reader # 0 => w.reader = a
  /\ w.doing \in {"source", "placeholder"} => w.reader = 0
  /\ w.placeholder => w.buffer = <<>> /\ ~w.rendered
  /\ w.doing \notin {"source", "placeholder"} =>
       /\ \A n \in DOMAIN w.buffer : w.buffer[n] = a
       /\ w.rendered => w.canvas \in {a, 0}

Sized(w) ==
  /\ Len(w.buffer) <= SourceBuffer /\ Len(w.queue) <= EncoderQueue
  /\ \A n \in DOMAIN w.queue : w.queue[n].type = "packet" /\ w.queue[n].quality = w.config
  /\ w.doing = "source" => w.call.source \in Sources
  /\ w.config = None => w.queue = <<>>

Sound(w) ==
  /\ w.closed \/ w.doing = "init" => Silent(w)
  /\ w.doing = "init" => ~w.closed
  /\ w.paused \/ w.networkPaused => ~w.timer
  /\ Sized(w)

Resting(w, a) == Sound(w) /\ ShowsOnly(w, a)

(* The timer is set if there is something to show.                         *)
Paced(w) ==
  ~w.closed /\ ~w.paused /\ ~w.networkPaused /\ w.clock = "fresh" /\ CanOutput(w) => w.timer

WorkerInv(w, a) == Resting(w, a) /\ Paced(w) /\ w.reader \in w.loops \cup {0}
-----------------------------------------------------------------------------
(* Of the page and its worker.                                             *)

Has(s, type) == \E n \in DOMAIN s : s[n].type = type

(* The page has not let go of the worker.                                  *)
Open == page.phase \in {"starting", "ready"}

Unloaded == Has(inbox, "init") \/ worker.doing = "init"

(* The worker loads once, and says nothing before that.                    *)
LoadInv ==
  /\ \A n \in DOMAIN inbox : inbox[n].type = "init" => n = 1 /\ worker.closed /\ worker.doing = "idle"
  /\ \A n \in DOMAIN inbox : inbox[n].type = "source" => inbox[n].source \in Sources
  /\ \A n \in DOMAIN outbox : outbox[n].key => outbox[n].type = "packet"
  /\ page.phase # "ready" => page.quality = None /\ page.source = 0
  /\ page.phase = "ready" => ~Unloaded
  /\ page.phase = "starting" =>
       /\ wire.quality = First
       /\ \A n \in DOMAIN inbox : inbox[n].type = "init"
       /\ IF Unloaded THEN outbox = <<>>
          ELSE outbox # <<>> /\ Head(outbox).type \in {"ready", "error"}
  /\ Open => ~Has(inbox, "close")
  /\ Open /\ worker.closed => Has(inbox, "init") \/ Has(outbox, "error")

Asked == Has(inbox, "reconfigure")
Changing == worker.doing \in {"support", "flush"}
Answers == {"reconfigured", "reconfigure-error"}
Answered == \E n \in DOMAIN outbox : outbox[n].type \in Answers

(* A change of quality is in one place: asked for, under way or answered.  *)
ChangeInv ==
  /\ page.quality = None => ~Asked /\ ~Changing /\ ~Answered
  /\ ~(Asked /\ Changing) /\ ~(Asked /\ Answered) /\ ~(Changing /\ Answered)
  /\ \A m, n \in DOMAIN inbox :
       inbox[m].type = "reconfigure" /\ inbox[n].type = "reconfigure" => m = n
  /\ \A m, n \in DOMAIN outbox : outbox[m].type \in Answers /\ outbox[n].type \in Answers => m = n
  /\ \A n \in DOMAIN inbox : inbox[n].type = "reconfigure" => inbox[n].quality = page.quality
  /\ Changing => worker.call.quality = page.quality
  /\ worker.doing = "flush" /\ ~worker.closed => worker.paused

(* The worker resumes after the answer of one change and before the next.  *)
ResumeInv ==
  /\ Has(inbox, "resume") => ~Changing /\ ~Answered
  /\ \A m, n \in DOMAIN inbox : inbox[m].type = "reconfigure" /\ inbox[n].type = "resume" => n < m

(* From its answer to the resume the worker makes no packets; the others   *)
(* are of the quality announced.                                           *)
QualityInv ==
  /\ Has(outbox, "reconfigured") /\ ~worker.closed =>
       worker.paused /\ worker.queue = <<>> /\ worker.config = page.quality
  /\ ~Has(outbox, "reconfigured") => worker.config \in {None, wire.quality}
  /\ \A n \in DOMAIN outbox : outbox[n].type = "packet" => outbox[n].quality = wire.quality
  /\ \A m, n \in DOMAIN outbox :
       outbox[m].type = "packet" /\ outbox[n].type = "reconfigured" => m < n

(* A key frame is on its way.                                              *)
Healing ==
  \/ worker.force
  \/ \E n \in DOMAIN worker.queue : worker.queue[n].key
  \/ \E n \in DOMAIN outbox : outbox[n].key \/ outbox[n].type = "error"

GapInv ==
  wire.gap =>
    \/ Healing
    \/ page.phase = "ready" /\ (congested \/ Has(inbox, "resume") \/ Has(inbox, "transport-resume"))

PageInv == LoadInv /\ (Open => ChangeInv /\ ResumeInv /\ QualityInv /\ GapInv)

IInv == ShapeInv /\ WorkerInv(worker, accepted) /\ PageInv
-----------------------------------------------------------------------------
(* Functions of the worker.                                                *)

LEMMA MessageShape ==
  ASSUME NEW t \in Types
  PROVE  /\ Message(t) \in Messages /\ Message(t).type = t /\ ~Message(t).key
         /\ \A c \in Sources : /\ [Message(t) EXCEPT !.source = c] \in Messages
                               /\ [Message(t) EXCEPT !.source = c].source = c
BY DEF Message, Messages, Sources

(* The fields no command but its own changes.                              *)
Alike(v, w) ==
  /\ v.closed = w.closed /\ v.paused = w.paused /\ v.config = w.config /\ v.queue = w.queue
  /\ v.doing = w.doing /\ v.call = w.call

LEMMA StartedMoves ==
  ASSUME NEW w \in WorkerStates, NEW a \in Sources \cup {0}, Resting(w, a)
  PROVE  /\ Started(w) \in WorkerStates /\ Resting(Started(w), a) /\ Paced(Started(w))
         /\ Alike(Started(w), w) /\ Started(w).force = w.force
         /\ Started(w).reader = w.reader /\ Started(w).loops = w.loops
         /\ Started(w).placeholder = w.placeholder /\ Started(w).rendered = w.rendered
         /\ Started(w).buffer = w.buffer
<1> DEFINE s == [w EXCEPT !.timer = TRUE]
<1>1. /\ s \in WorkerStates /\ s.timer
      /\ s.closed = w.closed /\ s.paused = w.paused /\ s.networkPaused = w.networkPaused
      /\ s.placeholder = w.placeholder /\ s.rendered = w.rendered /\ s.buffer = w.buffer
      /\ s.reader = w.reader /\ s.loops = w.loops /\ s.clock = w.clock /\ s.force = w.force
      /\ s.canvas = w.canvas /\ s.config = w.config /\ s.queue = w.queue
      /\ s.doing = w.doing /\ s.call = w.call
  BY DEF WorkerStates
<1>2. \/ Started(w) = w /\ Paced(w)
      \/ Started(w) = s /\ ~w.closed /\ ~w.paused /\ ~w.networkPaused /\ w.clock # "none"
  BY DEF Started, Scheduled, Paced
<1>3. CASE Started(w) = w /\ Paced(w)
  BY <1>3 DEF Alike
<1>4. CASE Started(w) = s /\ ~w.closed /\ ~w.paused /\ ~w.networkPaused /\ w.clock # "none"
  <2> HIDE DEF s
  <2>1. w.doing # "init"
    BY <1>4 DEF Resting, Sound, Silent
  <2>2. Resting(s, a)
    BY <1>1, <1>4, <2>1 DEF Resting, Sound, ShowsOnly, Sized
  <2>3. Paced(s)
    BY <1>1 DEF Paced
  <2> QED
    BY <1>1, <1>4, <2>2, <2>3 DEF Alike
<1> QED
  BY <1>2, <1>3, <1>4

LEMMA HeldMoves ==
  ASSUME NEW w \in WorkerStates, NEW a \in Sources \cup {0}, Sound(w),
         w.reader # 0 => w.reader = a, w.doing \in {"source", "placeholder"} => w.reader = 0
  PROVE  /\ Held(w) \in WorkerStates /\ Resting(Held(w), a) /\ Paced(Held(w))
         /\ Alike(Held(w), w) /\ Held(w).force
         /\ Held(w).reader = w.reader /\ Held(w).loops = w.loops
         /\ Held(w).placeholder /\ ~Held(w).rendered /\ Held(w).buffer = <<>>
<1> DEFINE h == [w EXCEPT !.buffer = <<>>, !.rendered = FALSE, !.placeholder = TRUE, !.force = TRUE]
<1>1. /\ h \in WorkerStates /\ h.timer = w.timer
      /\ h.closed = w.closed /\ h.paused = w.paused /\ h.networkPaused = w.networkPaused
      /\ h.placeholder /\ ~h.rendered /\ h.buffer = <<>>
      /\ h.reader = w.reader /\ h.loops = w.loops /\ h.clock = w.clock /\ h.force
      /\ h.canvas = w.canvas /\ h.config = w.config /\ h.queue = w.queue
      /\ h.doing = w.doing /\ h.call = w.call
  <2>1. <<>> \in Seq(Sources)
    OBVIOUS
  <2> QED
    BY <2>1 DEF WorkerStates
<1>2. Held(w) = Started(h)
  BY DEF Held
<1> HIDE DEF h
<1>3. Resting(h, a)
  BY <1>1, VideoAssumption DEF Resting, Sound, Silent, ShowsOnly, Sized
<1> QED
  BY <1>1, <1>2, <1>3, StartedMoves DEF Alike

LEMMA LoadedShape ==
  /\ Loaded \in WorkerStates /\ Loaded.closed /\ Loaded.doing = "idle"
  /\ \A a \in Sources \cup {0} : WorkerInv(Loaded, a)
<1>1. Message("none") \in Messages
  BY MessageShape DEF Types
<1>2. <<>> \in Seq(Sources) /\ <<>> \in Seq(Messages) /\ Len(<<>>) = 0
  OBVIOUS
<1>3. Loaded \in WorkerStates
  BY <1>1, <1>2 DEF Loaded, WorkerStates, Steps
<1> QED
  BY <1>2, <1>3, VideoAssumption
  DEF Loaded, WorkerInv, Resting, Sound, Silent, ShowsOnly, Sized, Paced

LEMMA ClosedMoves ==
  ASSUME NEW w \in WorkerStates, NEW a \in Sources \cup {0}, w.doing # "init", Sized(w)
  PROVE  /\ Closed(w) \in WorkerStates /\ WorkerInv(Closed(w), a)
         /\ Closed(w).closed /\ Closed(w).force /\ Closed(w).config = None /\ Closed(w).queue = <<>>
         /\ Closed(w).doing = w.doing /\ Closed(w).call = w.call /\ Closed(w).paused
<1> DEFINE c == Closed(w)
<1>1. <<>> \in Seq(Sources) /\ <<>> \in Seq(Messages) /\ Len(<<>>) = 0
  OBVIOUS
<1>2. /\ c.closed /\ c.paused /\ ~c.networkPaused /\ c.placeholder /\ ~c.rendered
      /\ c.buffer = <<>> /\ c.reader = 0 /\ c.loops = {} /\ ~c.timer /\ c.clock = "none"
      /\ c.force /\ c.canvas = 0 /\ c.config = None /\ c.queue = <<>>
      /\ c.doing = w.doing /\ c.call = w.call
  BY DEF Closed, Loaded
<1>3. c \in WorkerStates
  <2>1. Loaded \in WorkerStates
    BY LoadedShape
  <2>2. w.doing \in Steps /\ w.call \in Messages
    BY DEF WorkerStates
  <2> QED
    BY <2>1, <2>2 DEF Closed, WorkerStates
<1> HIDE DEF c
<1>4. Resting(c, a) /\ Paced(c)
  BY <1>1, <1>2, VideoAssumption DEF Resting, Sound, Silent, ShowsOnly, Sized, Paced, WorkerStates
<1> QED
  BY <1>2, <1>3, <1>4 DEF WorkerInv, c

LEMMA StoppedMoves ==
  ASSUME NEW w \in WorkerStates, NEW a \in Sources \cup {0}, WorkerInv(w, a)
  PROVE  /\ Stopped(w) \in WorkerStates /\ WorkerInv(Stopped(w), a)
         /\ Alike(Stopped(w), w) /\ Stopped(w).force = w.force
         /\ Stopped(w).reader = 0 /\ Stopped(w).loops = w.loops
<1> DEFINE s == Stopped(w)
<1>1. /\ s \in WorkerStates
      /\ s.closed = w.closed /\ s.paused = w.paused
      /\ s.networkPaused = w.networkPaused /\ s.placeholder = w.placeholder
      /\ s.rendered = w.rendered /\ s.buffer = w.buffer /\ s.reader = 0
      /\ s.loops = w.loops /\ s.timer = w.timer /\ s.clock = w.clock
      /\ s.force = w.force /\ s.canvas = w.canvas /\ s.config = w.config
      /\ s.queue = w.queue /\ s.doing = w.doing /\ s.call = w.call
  BY DEF Stopped, WorkerStates
<1> HIDE DEF s
<1>2. WorkerInv(s, a)
  BY <1>1 DEF WorkerInv, Resting, Sound, Silent, ShowsOnly, Sized, Paced, CanOutput
<1> QED
  BY <1>1, <1>2 DEF Alike, s

LEMMA BeginMoves ==
  ASSUME NEW w \in WorkerStates, NEW a \in Sources \cup {0}, WorkerInv(w, a), w.doing = "idle",
         NEW step \in Steps, Head(inbox) \in Messages,
         step = "source" => Head(inbox).source \in Sources,
         step \in {"source", "placeholder"} => w.reader = 0,
         step = "init" => Silent(w) /\ ~w.closed
  PROVE  /\ Begin(w, step) \in WorkerStates /\ WorkerInv(Begin(w, step), a)
         /\ Begin(w, step).closed = w.closed /\ Begin(w, step).paused = w.paused
         /\ Begin(w, step).config = w.config /\ Begin(w, step).queue = w.queue
         /\ Begin(w, step).force = w.force
         /\ Begin(w, step).doing = step /\ Begin(w, step).call = Head(inbox)
<1> DEFINE s == Begin(w, step)
<1>1. /\ s \in WorkerStates
      /\ s.closed = w.closed /\ s.paused = w.paused
      /\ s.networkPaused = w.networkPaused /\ s.placeholder = w.placeholder
      /\ s.rendered = w.rendered /\ s.buffer = w.buffer /\ s.reader = w.reader
      /\ s.loops = w.loops /\ s.timer = w.timer /\ s.clock = w.clock
      /\ s.force = w.force /\ s.canvas = w.canvas /\ s.config = w.config
      /\ s.queue = w.queue /\ s.doing = step /\ s.call = Head(inbox)
  BY DEF Begin, WorkerStates
<1> HIDE DEF s
<1>2. WorkerInv(s, a)
  BY <1>1 DEF WorkerInv, Resting, Sound, Silent, ShowsOnly, Sized, Paced, CanOutput
<1> QED
  BY <1>1, <1>2 DEF s

(* A command without effect on what is shown ends.                         *)
LEMMA IdleMoves ==
  ASSUME NEW w \in WorkerStates, NEW a \in Sources \cup {0}, Sound(w)
  PROVE  /\ Idle(w) \in WorkerStates /\ Sound(Idle(w))
         /\ Idle(w).closed = w.closed /\ Idle(w).paused = w.paused
         /\ Idle(w).networkPaused = w.networkPaused
         /\ Idle(w).placeholder = w.placeholder /\ Idle(w).rendered = w.rendered
         /\ Idle(w).buffer = w.buffer /\ Idle(w).reader = w.reader
         /\ Idle(w).loops = w.loops /\ Idle(w).timer = w.timer
         /\ Idle(w).clock = w.clock /\ Idle(w).force = w.force
         /\ Idle(w).canvas = w.canvas /\ Idle(w).config = w.config
         /\ Idle(w).queue = w.queue /\ Idle(w).doing = "idle"
         /\ Idle(w).call = Message("none")
<1> DEFINE s == Idle(w)
<1>1. Message("none") \in Messages
  BY MessageShape DEF Types
<1>2. /\ s \in WorkerStates
      /\ s.closed = w.closed /\ s.paused = w.paused
      /\ s.networkPaused = w.networkPaused /\ s.placeholder = w.placeholder
      /\ s.rendered = w.rendered /\ s.buffer = w.buffer /\ s.reader = w.reader
      /\ s.loops = w.loops /\ s.timer = w.timer /\ s.clock = w.clock
      /\ s.force = w.force /\ s.canvas = w.canvas /\ s.config = w.config
      /\ s.queue = w.queue /\ s.doing = "idle" /\ s.call = Message("none")
  BY <1>1 DEF Idle, WorkerStates, Steps
<1> HIDE DEF s
<1>3. Sound(s)
  BY <1>2 DEF Sound, Silent, Sized
<1> QED
  BY <1>2, <1>3 DEF s

LEMMA SourceTaken ==
  ASSUME NEW w \in WorkerStates, NEW a \in Sources \cup {0}, NEW c \in Sources, WorkerInv(w, a),
         w.doing = "source"
  PROVE  LET u == Idle(IF w.placeholder THEN w ELSE Held(w))
             v == IF u.closed THEN u ELSE [u EXCEPT !.reader = c, !.loops = @ \cup {c}]
         IN  /\ v \in WorkerStates /\ WorkerInv(v, c)
             /\ v.closed = w.closed /\ v.paused = w.paused /\ v.config = w.config
             /\ v.queue = w.queue /\ v.doing = "idle" /\ (w.force => v.force)
<1> DEFINE h == IF w.placeholder THEN w ELSE Held(w)
           u == Idle(h)
           v == [u EXCEPT !.reader = c, !.loops = @ \cup {c}]
<1>1. /\ h \in WorkerStates /\ Sound(h) /\ Paced(h) /\ Alike(h, w) /\ (w.force => h.force)
      /\ h.placeholder /\ h.buffer = <<>> /\ ~h.rendered /\ h.reader = 0
  BY HeldMoves DEF WorkerInv, Resting, ShowsOnly, Alike
<1> HIDE DEF h
<1>2. /\ u \in WorkerStates /\ Sound(u)
      /\ u.closed = h.closed /\ u.paused = h.paused
      /\ u.networkPaused = h.networkPaused /\ u.placeholder = h.placeholder
      /\ u.rendered = h.rendered /\ u.buffer = h.buffer /\ u.reader = h.reader
      /\ u.loops = h.loops /\ u.timer = h.timer /\ u.clock = h.clock
      /\ u.force = h.force /\ u.canvas = h.canvas /\ u.config = h.config
      /\ u.queue = h.queue /\ u.doing = "idle" /\ u.call = Message("none")
  BY <1>1, IdleMoves
<1> HIDE DEF u
<1>3. Paced(u)
  BY <1>1, <1>2 DEF Paced, CanOutput
<1>4. CASE u.closed
  <2>1. WorkerInv(u, c)
    BY <1>1, <1>2, <1>3 DEF WorkerInv, Resting, ShowsOnly
  <2> QED
    BY <1>1, <1>2, <1>4, <2>1 DEF Alike, u, h
<1>5. CASE ~u.closed
  <2>1. /\ v \in WorkerStates
      /\ v.closed = u.closed /\ v.paused = u.paused
      /\ v.networkPaused = u.networkPaused /\ v.placeholder = u.placeholder
      /\ v.rendered = u.rendered /\ v.buffer = u.buffer /\ v.reader = c
      /\ v.loops = u.loops \cup {c} /\ v.timer = u.timer /\ v.clock = u.clock
      /\ v.force = u.force /\ v.canvas = u.canvas /\ v.config = u.config
      /\ v.queue = u.queue /\ v.doing = u.doing /\ v.call = u.call
    BY <1>2 DEF WorkerStates
  <2> HIDE DEF v
  <2>2. WorkerInv(v, c)
    BY <1>1, <1>2, <1>3, <1>5, <2>1 DEF WorkerInv, Resting, Sound, Silent, ShowsOnly, Sized, Paced, CanOutput
  <2> QED
    BY <1>1, <1>2, <1>5, <2>1, <2>2 DEF Alike, v, u, h
<1> QED
  BY <1>4, <1>5

LEMMA PlaceholderTaken ==
  ASSUME NEW w \in WorkerStates, NEW a \in Sources \cup {0}, WorkerInv(w, a),
         w.doing = "placeholder"
  PROVE  LET v == Held(Idle(w))
         IN  /\ v \in WorkerStates /\ WorkerInv(v, 0)
             /\ v.closed = w.closed /\ v.paused = w.paused /\ v.config = w.config
             /\ v.queue = w.queue /\ v.doing = "idle" /\ v.force
<1> DEFINE i == Idle(w)
<1>1. /\ i \in WorkerStates /\ Sound(i) /\ i.reader = 0 /\ i.loops = w.loops
      /\ i.closed = w.closed /\ i.paused = w.paused /\ i.config = w.config /\ i.queue = w.queue
      /\ i.doing = "idle"
  BY IdleMoves DEF WorkerInv, Resting, ShowsOnly
<1> HIDE DEF i
<1>2. /\ Held(i) \in WorkerStates /\ Resting(Held(i), 0) /\ Paced(Held(i))
      /\ Alike(Held(i), i) /\ Held(i).force /\ Held(i).reader = 0
  BY <1>1, HeldMoves
<1> QED
  BY <1>1, <1>2 DEF Alike, WorkerInv, i

(* The commands that end by showing something again.                       *)
LEMMA StartedKeeps ==
  ASSUME NEW w \in WorkerStates, NEW a \in Sources \cup {0}, Resting(w, a),
         w.reader \in w.loops \cup {0}
  PROVE  /\ Started(w) \in WorkerStates /\ WorkerInv(Started(w), a)
         /\ Alike(Started(w), w) /\ Started(w).force = w.force
BY StartedMoves DEF WorkerInv

LEMMA Resumed ==
  ASSUME NEW w \in WorkerStates, NEW a \in Sources \cup {0}, WorkerInv(w, a)
  PROVE  LET v == Started([w EXCEPT !.paused = FALSE, !.force = TRUE])
         IN  /\ v \in WorkerStates /\ WorkerInv(v, a) /\ v.force /\ ~v.paused
             /\ v.closed = w.closed /\ v.config = w.config /\ v.queue = w.queue
             /\ v.doing = w.doing /\ v.call = w.call
<1> DEFINE s == [w EXCEPT !.paused = FALSE, !.force = TRUE]
<1>1. /\ s \in WorkerStates
      /\ s.closed = w.closed /\ ~s.paused /\ s.networkPaused = w.networkPaused
      /\ s.placeholder = w.placeholder /\ s.rendered = w.rendered
      /\ s.buffer = w.buffer /\ s.reader = w.reader /\ s.loops = w.loops
      /\ s.timer = w.timer /\ s.clock = w.clock /\ s.force /\ s.canvas = w.canvas
      /\ s.config = w.config /\ s.queue = w.queue /\ s.doing = w.doing
      /\ s.call = w.call
  BY DEF WorkerStates
<1> HIDE DEF s
<1>2. Resting(s, a) /\ s.reader \in s.loops \cup {0}
  BY <1>1 DEF WorkerInv, Resting, Sound, Silent, ShowsOnly, Sized, Paced, CanOutput
<1> QED
  BY <1>1, <1>2, StartedKeeps DEF Alike, s

LEMMA NotReconfigured ==
  ASSUME NEW w \in WorkerStates, NEW a \in Sources \cup {0}, WorkerInv(w, a),
         w.doing \in {"support", "flush"}
  PROVE  LET v == Started(Idle([w EXCEPT !.paused = FALSE]))
         IN  /\ v \in WorkerStates /\ WorkerInv(v, a) /\ v.force = w.force
             /\ v.closed = w.closed /\ v.config = w.config /\ v.queue = w.queue
             /\ v.doing = "idle"
<1> DEFINE p == [w EXCEPT !.paused = FALSE]
           s == Idle(p)
<1>1. /\ p \in WorkerStates
      /\ p.closed = w.closed /\ ~p.paused /\ p.networkPaused = w.networkPaused
      /\ p.placeholder = w.placeholder /\ p.rendered = w.rendered
      /\ p.buffer = w.buffer /\ p.reader = w.reader /\ p.loops = w.loops
      /\ p.timer = w.timer /\ p.clock = w.clock /\ p.force = w.force
      /\ p.canvas = w.canvas /\ p.config = w.config /\ p.queue = w.queue
      /\ p.doing = w.doing /\ p.call = w.call
  BY DEF WorkerStates
<1> HIDE DEF p
<1>2. Sound(p)
  BY <1>1 DEF WorkerInv, Resting, Sound, Silent, ShowsOnly, Sized, Paced, CanOutput
<1>3. /\ s \in WorkerStates /\ Sound(s)
      /\ s.closed = p.closed /\ s.paused = p.paused
      /\ s.networkPaused = p.networkPaused /\ s.placeholder = p.placeholder
      /\ s.rendered = p.rendered /\ s.buffer = p.buffer /\ s.reader = p.reader
      /\ s.loops = p.loops /\ s.timer = p.timer /\ s.clock = p.clock
      /\ s.force = p.force /\ s.canvas = p.canvas /\ s.config = p.config
      /\ s.queue = p.queue /\ s.doing = "idle" /\ s.call = Message("none")
  BY <1>1, <1>2, IdleMoves
<1> HIDE DEF s
<1>4. Resting(s, a) /\ s.reader \in s.loops \cup {0}
  BY <1>1, <1>3 DEF WorkerInv, Resting, ShowsOnly
<1> QED
  BY <1>1, <1>3, <1>4, StartedKeeps DEF Alike, s, p

LEMMA FlushBegun ==
  ASSUME NEW w \in WorkerStates, NEW a \in Sources \cup {0}, WorkerInv(w, a),
         w.doing = "support", ~w.closed
  PROVE  LET v == [Pausing(w) EXCEPT !.doing = "flush"]
         IN  /\ v \in WorkerStates /\ WorkerInv(v, a)
             /\ v.paused /\ v.doing = "flush" /\ v.force = w.force
             /\ v.closed = w.closed /\ v.config = w.config /\ v.queue = w.queue /\ v.call = w.call
<1> DEFINE s == [Pausing(w) EXCEPT !.doing = "flush"]
<1>1. /\ s \in WorkerStates
      /\ s.closed = w.closed /\ s.paused /\ s.networkPaused = w.networkPaused
      /\ s.placeholder = w.placeholder /\ s.rendered = w.rendered
      /\ s.buffer = w.buffer /\ s.reader = w.reader /\ s.loops = w.loops /\ ~s.timer
      /\ s.clock = w.clock /\ s.force = w.force /\ s.canvas = w.canvas
      /\ s.config = w.config /\ s.queue = w.queue /\ s.doing = "flush"
      /\ s.call = w.call
  BY DEF Pausing, WorkerStates, Steps
<1> HIDE DEF s
<1>2. WorkerInv(s, a)
  BY <1>1 DEF WorkerInv, Resting, Sound, Silent, ShowsOnly, Sized, Paced, CanOutput
<1> QED
  BY <1>1, <1>2 DEF Alike, s

LEMMA ReconfiguredMoves ==
  ASSUME NEW w \in WorkerStates, NEW a \in Sources \cup {0}, WorkerInv(w, a),
         w.doing = "flush", ~w.closed, w.queue = <<>>
  PROVE  LET v == Reconfigured(w)
         IN  /\ v \in WorkerStates /\ WorkerInv(v, a) /\ v.force /\ v.doing = "idle"
             /\ v.closed = w.closed /\ v.paused = w.paused /\ v.queue = <<>>
             /\ v.config = w.call.quality
<1> DEFINE r == [w EXCEPT !.config = w.call.quality, !.canvas = 0, !.force = TRUE]
           s == Idle(r)
<1>0. w.call.quality \in Qualities \cup {None}
  BY DEF WorkerStates, Messages
<1>1. /\ r \in WorkerStates
      /\ r.closed = w.closed /\ r.paused = w.paused
      /\ r.networkPaused = w.networkPaused /\ r.placeholder = w.placeholder
      /\ r.rendered = w.rendered /\ r.buffer = w.buffer /\ r.reader = w.reader
      /\ r.loops = w.loops /\ r.timer = w.timer /\ r.clock = w.clock /\ r.force
      /\ r.canvas = 0 /\ r.config = w.call.quality /\ r.queue = w.queue
      /\ r.doing = w.doing /\ r.call = w.call
  BY <1>0 DEF WorkerStates
<1>2. s = Reconfigured(w)
  BY DEF Reconfigured
<1> HIDE DEF r
<1>3. Sound(r)
  BY <1>0, <1>1, VideoAssumption DEF WorkerInv, Resting, Sound, Silent, Sized
<1>4. /\ s \in WorkerStates /\ Sound(s)
      /\ s.closed = r.closed /\ s.paused = r.paused
      /\ s.networkPaused = r.networkPaused /\ s.placeholder = r.placeholder
      /\ s.rendered = r.rendered /\ s.buffer = r.buffer /\ s.reader = r.reader
      /\ s.loops = r.loops /\ s.timer = r.timer /\ s.clock = r.clock
      /\ s.force = r.force /\ s.canvas = r.canvas /\ s.config = r.config
      /\ s.queue = r.queue /\ s.doing = "idle" /\ s.call = Message("none")
  BY <1>1, <1>3, IdleMoves
<1> HIDE DEF s
<1>5. WorkerInv(s, a)
  BY <1>1, <1>4 DEF WorkerInv, Resting, ShowsOnly, Paced, CanOutput
<1> QED
  BY <1>1, <1>2, <1>4, <1>5

LEMMA Paused ==
  ASSUME NEW w \in WorkerStates, NEW a \in Sources \cup {0}, WorkerInv(w, a)
  PROVE  LET v == [w EXCEPT !.networkPaused = TRUE, !.timer = FALSE]
         IN  /\ v \in WorkerStates /\ WorkerInv(v, a)
             /\ Alike(v, w) /\ v.force = w.force
<1> DEFINE s == [w EXCEPT !.networkPaused = TRUE, !.timer = FALSE]
<1>1. /\ s \in WorkerStates
      /\ s.closed = w.closed /\ s.paused = w.paused /\ s.networkPaused
      /\ s.placeholder = w.placeholder /\ s.rendered = w.rendered
      /\ s.buffer = w.buffer /\ s.reader = w.reader /\ s.loops = w.loops /\ ~s.timer
      /\ s.clock = w.clock /\ s.force = w.force /\ s.canvas = w.canvas
      /\ s.config = w.config /\ s.queue = w.queue /\ s.doing = w.doing
      /\ s.call = w.call
  BY DEF WorkerStates
<1> HIDE DEF s
<1>2. WorkerInv(s, a)
  BY <1>1 DEF WorkerInv, Resting, Sound, Silent, ShowsOnly, Sized, Paced, CanOutput
<1> QED
  BY <1>1, <1>2 DEF Alike, s

LEMMA UnpausedMoves ==
  ASSUME NEW w \in WorkerStates, NEW a \in Sources \cup {0}, WorkerInv(w, a)
  PROVE  LET v == Started(Unpaused(w))
         IN  /\ v \in WorkerStates /\ WorkerInv(v, a)
             /\ Alike(v, w) /\ v.force
<1> DEFINE s == Unpaused(w)
<1>1. /\ s \in WorkerStates
      /\ s.closed = w.closed /\ s.paused = w.paused /\ ~s.networkPaused
      /\ s.placeholder = w.placeholder /\ s.rendered = w.rendered
      /\ s.buffer = w.buffer /\ s.reader = w.reader /\ s.loops = w.loops
      /\ s.timer = w.timer /\ s.clock = w.clock /\ s.force /\ s.canvas = w.canvas
      /\ s.config = w.config /\ s.queue = w.queue /\ s.doing = w.doing
      /\ s.call = w.call
  BY DEF Unpaused, WorkerStates
<1> HIDE DEF s
<1>2. Resting(s, a) /\ s.reader \in s.loops \cup {0}
  BY <1>1 DEF WorkerInv, Resting, Sound, Silent, ShowsOnly, Sized, Paced, CanOutput
<1> QED
  BY <1>1, <1>2, StartedKeeps DEF Alike, s

LEMMA ClockHeard ==
  ASSUME NEW w \in WorkerStates, NEW a \in Sources \cup {0}, WorkerInv(w, a), NEW gap \in BOOLEAN,
         ~w.closed, w.doing # "init"
  PROVE  LET v == Started([w EXCEPT !.clock = "fresh", !.force = @ \/ gap])
         IN  /\ v \in WorkerStates /\ WorkerInv(v, a)
             /\ Alike(v, w) /\ (w.force => v.force)
<1> DEFINE s == [w EXCEPT !.clock = "fresh", !.force = @ \/ gap]
<1>1. /\ s \in WorkerStates
      /\ s.closed = w.closed /\ s.paused = w.paused
      /\ s.networkPaused = w.networkPaused /\ s.placeholder = w.placeholder
      /\ s.rendered = w.rendered /\ s.buffer = w.buffer /\ s.reader = w.reader
      /\ s.loops = w.loops /\ s.timer = w.timer /\ s.clock = "fresh"
      /\ s.force = (w.force \/ gap) /\ s.canvas = w.canvas /\ s.config = w.config
      /\ s.queue = w.queue /\ s.doing = w.doing /\ s.call = w.call
  BY DEF WorkerStates
<1> HIDE DEF s
<1>2. Resting(s, a) /\ s.reader \in s.loops \cup {0}
  BY <1>1 DEF WorkerInv, Resting, Sound, Silent, ShowsOnly, Sized, Paced, CanOutput
<1> QED
  BY <1>1, <1>2, StartedKeeps DEF Alike, s

LEMMA ClockLost ==
  ASSUME NEW w \in WorkerStates, NEW a \in Sources \cup {0}, WorkerInv(w, a), ~w.closed, w.doing # "init"
  PROVE  LET v == [w EXCEPT !.clock = "stale"]
         IN  /\ v \in WorkerStates /\ WorkerInv(v, a)
             /\ Alike(v, w) /\ v.force = w.force
<1> DEFINE s == [w EXCEPT !.clock = "stale"]
<1>1. /\ s \in WorkerStates
      /\ s.closed = w.closed /\ s.paused = w.paused
      /\ s.networkPaused = w.networkPaused /\ s.placeholder = w.placeholder
      /\ s.rendered = w.rendered /\ s.buffer = w.buffer /\ s.reader = w.reader
      /\ s.loops = w.loops /\ s.timer = w.timer /\ s.clock = "stale"
      /\ s.force = w.force /\ s.canvas = w.canvas /\ s.config = w.config
      /\ s.queue = w.queue /\ s.doing = w.doing /\ s.call = w.call
  BY DEF WorkerStates
<1> HIDE DEF s
<1>2. WorkerInv(s, a)
  BY <1>1 DEF WorkerInv, Resting, Sound, Silent, ShowsOnly, Sized, Paced, CanOutput
<1> QED
  BY <1>1, <1>2 DEF Alike, s

LEMMA FrameDropped ==
  ASSUME NEW w \in WorkerStates, NEW a \in Sources \cup {0}, WorkerInv(w, a), NEW c \in Sources,
         w.reader # c
  PROVE  LET v == [w EXCEPT !.loops = @ \ {c}]
         IN  /\ v \in WorkerStates /\ WorkerInv(v, a)
             /\ Alike(v, w) /\ v.force = w.force
<1> DEFINE s == [w EXCEPT !.loops = @ \ {c}]
<1>1. /\ s \in WorkerStates
      /\ s.closed = w.closed /\ s.paused = w.paused
      /\ s.networkPaused = w.networkPaused /\ s.placeholder = w.placeholder
      /\ s.rendered = w.rendered /\ s.buffer = w.buffer /\ s.reader = w.reader
      /\ s.loops = w.loops \ {c} /\ s.timer = w.timer /\ s.clock = w.clock
      /\ s.force = w.force /\ s.canvas = w.canvas /\ s.config = w.config
      /\ s.queue = w.queue /\ s.doing = w.doing /\ s.call = w.call
  BY DEF WorkerStates
<1> HIDE DEF s
<1>2. WorkerInv(s, a)
  BY <1>1 DEF WorkerInv, Resting, Sound, Silent, ShowsOnly, Sized, Paced, CanOutput
<1> QED
  BY <1>1, <1>2 DEF Alike, s

LEMMA TimerStops ==
  ASSUME NEW w \in WorkerStates, NEW a \in Sources \cup {0}, WorkerInv(w, a),
         w.clock = "stale"
  PROVE  LET v == [w EXCEPT !.timer = FALSE]
         IN  /\ v \in WorkerStates /\ WorkerInv(v, a)
             /\ Alike(v, w) /\ v.force = w.force
<1> DEFINE s == [w EXCEPT !.timer = FALSE]
<1>1. /\ s \in WorkerStates
      /\ s.closed = w.closed /\ s.paused = w.paused
      /\ s.networkPaused = w.networkPaused /\ s.placeholder = w.placeholder
      /\ s.rendered = w.rendered /\ s.buffer = w.buffer /\ s.reader = w.reader
      /\ s.loops = w.loops /\ ~s.timer /\ s.clock = w.clock /\ s.force = w.force
      /\ s.canvas = w.canvas /\ s.config = w.config /\ s.queue = w.queue
      /\ s.doing = w.doing /\ s.call = w.call
  BY DEF WorkerStates
<1> HIDE DEF s
<1>2. WorkerInv(s, a)
  BY <1>1 DEF WorkerInv, Resting, Sound, Silent, ShowsOnly, Sized, Paced, CanOutput
<1> QED
  BY <1>1, <1>2 DEF Alike, s

LEMMA FrameArrives ==
  ASSUME NEW w \in WorkerStates, NEW a \in Sources \cup {0}, WorkerInv(w, a), NEW c \in Sources,
         w.reader = c
  PROVE  LET v == Arrived(w, c)
         IN  /\ v \in WorkerStates /\ WorkerInv(v, a)
             /\ Alike(v, w) /\ (w.force => v.force)
<1> DEFINE b == Append(IF Len(w.buffer) = SourceBuffer THEN Tail(w.buffer) ELSE w.buffer, c)
           r == w.rendered /\ ~w.placeholder
           f == w.force \/ w.placeholder
           s == [w EXCEPT !.buffer = b, !.rendered = r, !.force = f, !.placeholder = FALSE]
<1>0. Arrived(w, c) = Started(s)
  BY DEF Arrived
<1>1. c = a /\ w.doing \notin {"source", "placeholder"} /\ w.reader \in w.loops /\ c # 0
      /\ ~w.closed /\ w.doing # "init"
  BY DEF WorkerInv, Resting, Sound, Silent, ShowsOnly, Sources
<1>2. /\ w.buffer \in Seq(Sources) /\ Len(w.buffer) <= SourceBuffer
      /\ \A n \in DOMAIN w.buffer : w.buffer[n] = a
  BY <1>1 DEF WorkerInv, Resting, Sound, ShowsOnly, Sized, WorkerStates
<1>3. b \in Seq(Sources) /\ Len(b) <= SourceBuffer /\ \A n \in DOMAIN b : b[n] = a
  <2>1. CASE Len(w.buffer) = SourceBuffer
    <3>1. w.buffer # <<>> /\ Len(w.buffer) \in Nat
      BY <1>2, <2>1, VideoAssumption, EmptySeq
    <3>2. /\ Tail(w.buffer) \in Seq(Sources) /\ Len(Tail(w.buffer)) = Len(w.buffer) - 1
          /\ \A n \in DOMAIN Tail(w.buffer) : Tail(w.buffer)[n] = a
      BY <1>2, <3>1
    <3> QED
      BY <1>1, <1>2, <2>1, <3>1, <3>2
  <2>2. CASE Len(w.buffer) # SourceBuffer
    BY <1>1, <1>2, <2>2, VideoAssumption
  <2> QED
    BY <2>1, <2>2
<1>r. r \in BOOLEAN /\ f \in BOOLEAN /\ (r => w.rendered) /\ (w.force => f)
  OBVIOUS
<1> HIDE DEF b, r, f
<1>4. /\ s \in WorkerStates
      /\ s.closed = w.closed /\ s.paused = w.paused
      /\ s.networkPaused = w.networkPaused /\ ~s.placeholder /\ s.rendered = r
      /\ s.buffer = b /\ s.reader = w.reader /\ s.loops = w.loops
      /\ s.timer = w.timer /\ s.clock = w.clock /\ s.force = f
      /\ s.canvas = w.canvas /\ s.config = w.config /\ s.queue = w.queue
      /\ s.doing = w.doing /\ s.call = w.call
  <2>1. s \in WorkerStates
    BY <1>3, <1>r, Zenon DEF WorkerStates
  <2>2. /\ s.closed = w.closed /\ s.paused = w.paused
        /\ s.networkPaused = w.networkPaused /\ ~s.placeholder /\ s.rendered = r
        /\ s.buffer = b /\ s.reader = w.reader /\ s.loops = w.loops
        /\ s.timer = w.timer
    BY Zenon DEF WorkerStates
  <2>3. /\ s.clock = w.clock /\ s.force = f
        /\ s.canvas = w.canvas /\ s.config = w.config /\ s.queue = w.queue
        /\ s.doing = w.doing /\ s.call = w.call
    BY Zenon DEF WorkerStates
  <2> QED
    BY <2>1, <2>2, <2>3, Zenon
<1> HIDE DEF s
<1>5. Resting(s, a) /\ s.reader \in s.loops \cup {0}
  BY <1>1, <1>3, <1>r, <1>4 DEF WorkerInv, Resting, Sound, Silent, ShowsOnly, Sized, Paced, CanOutput
<1>6. /\ Started(s) \in WorkerStates /\ WorkerInv(Started(s), a)
      /\ Alike(Started(s), s) /\ Started(s).force = s.force
  BY <1>4, <1>5, StartedKeeps
<1> QED
  BY <1>0, <1>r, <1>4, <1>6 DEF Alike

LEMMA SourceEnds ==
  ASSUME NEW w \in WorkerStates, NEW a \in Sources \cup {0}, WorkerInv(w, a), NEW c \in Sources,
         w.reader = c
  PROVE  LET v == Stopped(Held([w EXCEPT !.loops = @ \ {c}]))
         IN  /\ v \in WorkerStates /\ WorkerInv(v, a)
             /\ Alike(v, w) /\ v.force
<1> DEFINE e == [w EXCEPT !.loops = @ \ {c}]
           h == Held(e)
           v == Stopped(h)
<1>1. /\ e \in WorkerStates
      /\ e.closed = w.closed /\ e.paused = w.paused
      /\ e.networkPaused = w.networkPaused /\ e.placeholder = w.placeholder
      /\ e.rendered = w.rendered /\ e.buffer = w.buffer /\ e.reader = w.reader
      /\ e.loops = w.loops \ {c} /\ e.timer = w.timer /\ e.clock = w.clock
      /\ e.force = w.force /\ e.canvas = w.canvas /\ e.config = w.config
      /\ e.queue = w.queue /\ e.doing = w.doing /\ e.call = w.call
  BY DEF WorkerStates
<1> HIDE DEF e
<1>2. Sound(e) /\ (e.reader # 0 => e.reader = a) /\ e.doing \notin {"source", "placeholder"}
  BY <1>1 DEF WorkerInv, Resting, Sound, Silent, ShowsOnly, Sized, Sources
<1>3. /\ h \in WorkerStates /\ Resting(h, a) /\ Paced(h) /\ Alike(h, e) /\ h.force
  BY <1>1, <1>2, HeldMoves
<1> HIDE DEF h
<1>4. /\ v \in WorkerStates
      /\ v.closed = h.closed /\ v.paused = h.paused
      /\ v.networkPaused = h.networkPaused /\ v.placeholder = h.placeholder
      /\ v.rendered = h.rendered /\ v.buffer = h.buffer /\ v.reader = 0
      /\ v.loops = h.loops /\ v.timer = h.timer /\ v.clock = h.clock
      /\ v.force = h.force /\ v.canvas = h.canvas /\ v.config = h.config
      /\ v.queue = h.queue /\ v.doing = h.doing /\ v.call = h.call
  BY <1>3 DEF Stopped, WorkerStates
<1> HIDE DEF v
<1>5. WorkerInv(v, a)
  BY <1>3, <1>4 DEF WorkerInv, Resting, Sound, Silent, ShowsOnly, Sized, Paced, CanOutput
<1> QED
  BY <1>1, <1>3, <1>4, <1>5 DEF Alike, v, h, e

LEMMA FailMoves ==
  ASSUME NEW w \in WorkerStates, NEW a \in Sources \cup {0}, WorkerInv(w, a), w.doing # "init"
  PROVE  LET v == Closed(w)
         IN  /\ v \in WorkerStates /\ WorkerInv(v, a) /\ v.closed /\ v.force
             /\ v.config = None /\ v.queue = <<>> /\ v.doing = w.doing /\ v.call = w.call
BY ClosedMoves DEF WorkerInv, Resting, Sound

LEMMA ReadFailed ==
  ASSUME NEW w \in WorkerStates, NEW a \in Sources \cup {0}, WorkerInv(w, a), NEW c \in w.loops
  PROVE  LET v == Closed([w EXCEPT !.loops = @ \ {c}])
         IN  /\ v \in WorkerStates /\ WorkerInv(v, a) /\ v.closed /\ v.force
             /\ v.config = None /\ v.queue = <<>> /\ v.doing = w.doing /\ v.call = w.call
<1> DEFINE e == [w EXCEPT !.loops = @ \ {c}]
<1>1. /\ e \in WorkerStates
      /\ e.closed = w.closed /\ e.paused = w.paused
      /\ e.networkPaused = w.networkPaused /\ e.placeholder = w.placeholder
      /\ e.rendered = w.rendered /\ e.buffer = w.buffer /\ e.reader = w.reader
      /\ e.loops = w.loops \ {c} /\ e.timer = w.timer /\ e.clock = w.clock
      /\ e.force = w.force /\ e.canvas = w.canvas /\ e.config = w.config
      /\ e.queue = w.queue /\ e.doing = w.doing /\ e.call = w.call
  BY DEF WorkerStates
<1> HIDE DEF e
<1>2. Sized(e) /\ e.doing # "init"
  BY <1>1 DEF WorkerInv, Resting, Sound, Silent, Sized
<1> QED
  BY <1>1, <1>2, ClosedMoves DEF e

LEMMA PacketShape ==
  ASSUME worker \in WorkerStates, NEW key \in BOOLEAN
  PROVE  /\ Packet(key) \in Messages /\ Packet(key).type = "packet"
         /\ Packet(key).quality = worker.config /\ Packet(key).key = key
<1>1. worker.config \in Qualities \cup {None}
  BY DEF WorkerStates
<1> QED
  BY <1>1 DEF Packet, Message, Messages, Types

LEMMA SubmittedMoves ==
  ASSUME worker \in WorkerStates, NEW w \in WorkerStates, NEW a \in Sources \cup {0},
         Resting(w, a), w.reader \in w.loops \cup {0}, w.timer, w.config = worker.config,
         NEW canvas \in Sources \cup {0}, NEW key \in BOOLEAN,
         canvas # 0 => ~w.placeholder,
         w.doing \notin {"source", "placeholder"} => canvas \in {a, 0}
  PROVE  LET v == Submitted(w, canvas, key)
         IN  /\ v \in WorkerStates /\ WorkerInv(v, a)
             /\ v.closed = w.closed /\ v.paused = w.paused /\ v.config = w.config
             /\ v.doing = w.doing /\ v.call = w.call
             /\ \/ v.queue = w.queue /\ v.force = w.force
                \/ v.queue = Append(w.queue, Packet(key)) /\ w.config # None
<1> DEFINE r == w.rendered \/ canvas # 0
           q == Append(w.queue, Packet(key))
           s == [w EXCEPT !.canvas = canvas, !.queue = q, !.force = FALSE, !.rendered = r]
<1>r. r \in BOOLEAN /\ (r => w.rendered \/ canvas # 0)
  OBVIOUS
<1>q. q = Append(w.queue, Packet(key))
  OBVIOUS
<1>s. Submitted(w, canvas, key) =
        IF w.config = None \/ Len(w.queue) >= EncoderQueue THEN w ELSE s
  BY DEF Submitted
<1> HIDE DEF r, q
<1>1. ~w.closed /\ w.doing # "init"
  BY DEF Resting, Sound, Silent
<1>2. CASE Submitted(w, canvas, key) = w
  BY <1>1, <1>2 DEF WorkerInv, Paced
<1>3. CASE Submitted(w, canvas, key) = s /\ w.config # None /\ Len(w.queue) < EncoderQueue
  <2>1. /\ w.queue \in Seq(Messages) /\ Len(w.queue) \in Nat
    BY DEF WorkerStates
  <2>2. /\ q \in Seq(Messages)
        /\ Len(q) <= EncoderQueue
        /\ \A n \in DOMAIN q :
             /\ q[n].type = "packet"
             /\ q[n].quality = w.config
    <3>1. \A n \in DOMAIN w.queue : w.queue[n].type = "packet" /\ w.queue[n].quality = w.config
      BY DEF Resting, Sound, Sized
    <3> QED
      BY <1>q, <1>3, <2>1, <3>1, PacketShape, VideoAssumption
  <2>3. /\ s \in WorkerStates
      /\ s.closed = w.closed /\ s.paused = w.paused
      /\ s.networkPaused = w.networkPaused /\ s.placeholder = w.placeholder
      /\ s.rendered = r /\ s.buffer = w.buffer /\ s.reader = w.reader
      /\ s.loops = w.loops /\ s.timer = w.timer /\ s.clock = w.clock /\ ~s.force
      /\ s.canvas = canvas /\ s.config = w.config /\ s.queue = q
      /\ s.doing = w.doing /\ s.call = w.call
    <3>1. s \in WorkerStates
      BY <2>2, <1>r, Zenon DEF WorkerStates
    <3>2. /\ s.closed = w.closed /\ s.paused = w.paused
          /\ s.networkPaused = w.networkPaused /\ s.placeholder = w.placeholder
          /\ s.rendered = r /\ s.buffer = w.buffer /\ s.reader = w.reader
          /\ s.loops = w.loops /\ s.timer = w.timer
      BY Zenon DEF WorkerStates
    <3>3. /\ s.clock = w.clock /\ ~s.force
          /\ s.canvas = canvas /\ s.config = w.config /\ s.queue = q
          /\ s.doing = w.doing /\ s.call = w.call
      BY Zenon DEF WorkerStates
    <3> QED
      BY <3>1, <3>2, <3>3, Zenon
  <2> HIDE DEF s
  <2>4. WorkerInv(s, a)
    BY <1>1, <1>3, <1>r, <2>2, <2>3 DEF WorkerInv, Resting, Sound, Silent, ShowsOnly, Sized, Paced, CanOutput
  <2> QED
    BY <1>3, <1>q, <2>3, <2>4
<1>4. Len(w.queue) \in Nat
  BY DEF WorkerStates
<1> HIDE DEF s
<1> QED
  BY <1>s, <1>2, <1>3, <1>4, VideoAssumption

LEMMA PictureTaken ==
  ASSUME NEW w \in WorkerStates, NEW a \in Sources \cup {0}, WorkerInv(w, a),
         w.timer, w.buffer # <<>>
  PROVE  LET v == [w EXCEPT !.buffer = Tail(@)]
         IN  /\ v \in WorkerStates /\ Resting(v, a) /\ v.reader \in v.loops \cup {0} /\ v.timer
             /\ Alike(v, w) /\ v.force = w.force /\ v.placeholder = w.placeholder
             /\ Head(w.buffer) \in Sources
             /\ w.doing \notin {"source", "placeholder"} => Head(w.buffer) = a
<1> DEFINE s == [w EXCEPT !.buffer = Tail(@)]
<1>1. /\ w.buffer \in Seq(Sources) /\ Len(w.buffer) <= SourceBuffer /\ Len(w.buffer) \in Nat \ {0}
  <2>1. w.buffer \in Seq(Sources)
    BY DEF WorkerStates
  <2> QED
    BY <2>1, EmptySeq DEF WorkerInv, Resting, Sound, Sized
<1>2. /\ Tail(w.buffer) \in Seq(Sources) /\ Len(Tail(w.buffer)) <= SourceBuffer
      /\ \A n \in DOMAIN Tail(w.buffer) : n + 1 \in DOMAIN w.buffer /\ Tail(w.buffer)[n] = w.buffer[n + 1]
      /\ Head(w.buffer) = w.buffer[1] /\ 1 \in DOMAIN w.buffer /\ Head(w.buffer) \in Sources
  BY <1>1, VideoAssumption
<1>3. /\ s \in WorkerStates
      /\ s.closed = w.closed /\ s.paused = w.paused
      /\ s.networkPaused = w.networkPaused /\ s.placeholder = w.placeholder
      /\ s.rendered = w.rendered /\ s.buffer = Tail(w.buffer) /\ s.reader = w.reader
      /\ s.loops = w.loops /\ s.timer = w.timer /\ s.clock = w.clock
      /\ s.force = w.force /\ s.canvas = w.canvas /\ s.config = w.config
      /\ s.queue = w.queue /\ s.doing = w.doing /\ s.call = w.call
  BY <1>2 DEF WorkerStates
<1> HIDE DEF s
<1>4. Resting(s, a)
  BY <1>2, <1>3 DEF WorkerInv, Resting, Sound, Silent, ShowsOnly, Sized
<1> QED
  BY <1>2, <1>3, <1>4 DEF Alike, WorkerInv, Resting, ShowsOnly, s

LEMMA PacketPut ==
  ASSUME NEW w \in WorkerStates, NEW a \in Sources \cup {0}, WorkerInv(w, a), w.queue # <<>>
  PROVE  LET v == [w EXCEPT !.queue = Tail(@)]
         IN  /\ v \in WorkerStates /\ WorkerInv(v, a) /\ v.force = w.force
             /\ v.closed = w.closed /\ v.paused = w.paused /\ v.config = w.config
             /\ v.queue = Tail(w.queue) /\ v.doing = w.doing /\ v.call = w.call
             /\ ~w.closed /\ w.doing # "init"
             /\ Head(w.queue) \in Messages /\ Head(w.queue).type = "packet"
             /\ Head(w.queue).quality = w.config /\ w.config # None
<1> DEFINE s == [w EXCEPT !.queue = Tail(@)]
<1>1. /\ w.queue \in Seq(Messages) /\ Len(w.queue) <= EncoderQueue /\ Len(w.queue) \in Nat \ {0}
      /\ w.config # None /\ ~w.closed /\ w.doing # "init"
      /\ \A n \in DOMAIN w.queue : w.queue[n].type = "packet" /\ w.queue[n].quality = w.config
  <2>1. w.queue \in Seq(Messages)
    BY DEF WorkerStates
  <2> QED
    BY <2>1, EmptySeq DEF WorkerInv, Resting, Sound, Silent, Sized
<1>2. /\ Tail(w.queue) \in Seq(Messages) /\ Len(Tail(w.queue)) <= EncoderQueue
      /\ \A n \in DOMAIN Tail(w.queue) : n + 1 \in DOMAIN w.queue /\ Tail(w.queue)[n] = w.queue[n + 1]
      /\ Head(w.queue) = w.queue[1] /\ 1 \in DOMAIN w.queue /\ Head(w.queue) \in Messages
  BY <1>1, VideoAssumption
<1>3. /\ s \in WorkerStates
      /\ s.closed = w.closed /\ s.paused = w.paused
      /\ s.networkPaused = w.networkPaused /\ s.placeholder = w.placeholder
      /\ s.rendered = w.rendered /\ s.buffer = w.buffer /\ s.reader = w.reader
      /\ s.loops = w.loops /\ s.timer = w.timer /\ s.clock = w.clock
      /\ s.force = w.force /\ s.canvas = w.canvas /\ s.config = w.config
      /\ s.queue = Tail(w.queue) /\ s.doing = w.doing /\ s.call = w.call
  BY <1>2 DEF WorkerStates
<1> HIDE DEF s
<1>4. WorkerInv(s, a)
  BY <1>1, <1>2, <1>3 DEF WorkerInv, Resting, Sound, Silent, ShowsOnly, Sized, Paced, CanOutput
<1> QED
  BY <1>1, <1>2, <1>3, <1>4 DEF s

LEMMA LoadingBegins ==
  ASSUME NEW w \in WorkerStates, NEW a \in Sources \cup {0}, WorkerInv(w, a),
         w.closed, w.doing = "idle", Head(inbox) \in Messages
  PROVE  LET v == Begin([w EXCEPT !.closed = FALSE], "init")
         IN  /\ v \in WorkerStates /\ WorkerInv(v, a) /\ v.force = w.force /\ ~v.closed
             /\ v.paused = w.paused /\ v.config = None /\ v.queue = <<>> /\ v.doing = "init"
<1> DEFINE s == [w EXCEPT !.closed = FALSE]
<1>1. /\ s \in WorkerStates
      /\ ~s.closed /\ s.paused = w.paused /\ s.networkPaused = w.networkPaused
      /\ s.placeholder = w.placeholder /\ s.rendered = w.rendered
      /\ s.buffer = w.buffer /\ s.reader = w.reader /\ s.loops = w.loops
      /\ s.timer = w.timer /\ s.clock = w.clock /\ s.force = w.force
      /\ s.canvas = w.canvas /\ s.config = w.config /\ s.queue = w.queue
      /\ s.doing = w.doing /\ s.call = w.call
  BY DEF WorkerStates
<1> HIDE DEF s
<1>2. Silent(w)
  BY DEF WorkerInv, Resting, Sound
<1>3. WorkerInv(s, a) /\ Silent(s)
  BY <1>1, <1>2 DEF WorkerInv, Resting, Sound, Silent, ShowsOnly, Sized, Paced, CanOutput
<1>4. LET v == Begin(s, "init")
      IN  /\ v \in WorkerStates /\ WorkerInv(v, a) /\ v.force = s.force /\ ~v.closed
          /\ v.paused = s.paused /\ v.config = s.config /\ v.queue = s.queue /\ v.doing = "init"
  BY <1>1, <1>3, BeginMoves DEF Steps
<1> QED
  BY <1>1, <1>2, <1>4 DEF Silent, s

LEMMA LoadingEnds ==
  ASSUME NEW w \in WorkerStates, NEW a \in Sources \cup {0}, WorkerInv(w, a), w.doing = "init"
  PROVE  /\ LET v == Started(Idle([w EXCEPT !.config = First, !.clock = "fresh"]))
            IN  /\ v \in WorkerStates /\ WorkerInv(v, a) /\ v.force = w.force /\ ~v.closed
                /\ v.paused = w.paused /\ v.config = First /\ v.queue = <<>> /\ v.doing = "idle"
         /\ LET v == Closed(Idle(w))
            IN  /\ v \in WorkerStates /\ WorkerInv(v, a) /\ v.force /\ v.closed
                /\ v.config = None /\ v.queue = <<>> /\ v.doing = "idle"
<1> DEFINE r == [w EXCEPT !.config = First, !.clock = "fresh"]
           i == [r EXCEPT !.doing = "idle", !.call = Message("none")]
<1>0. First \in Qualities /\ First # None
  BY VideoAssumption
<1>1. Message("none") \in Messages
  BY MessageShape DEF Types
<1>2. /\ r \in WorkerStates
      /\ r.closed = w.closed /\ r.paused = w.paused
      /\ r.networkPaused = w.networkPaused /\ r.placeholder = w.placeholder
      /\ r.rendered = w.rendered /\ r.buffer = w.buffer /\ r.reader = w.reader
      /\ r.loops = w.loops /\ r.timer = w.timer /\ r.clock = "fresh"
      /\ r.force = w.force /\ r.canvas = w.canvas /\ r.config = First
      /\ r.queue = w.queue /\ r.doing = w.doing /\ r.call = w.call
  BY <1>0 DEF WorkerStates
<1>3. i = Idle(r)
  BY DEF Idle
<1> HIDE DEF r
<1>4. /\ i \in WorkerStates
      /\ i.closed = r.closed /\ i.paused = r.paused
      /\ i.networkPaused = r.networkPaused /\ i.placeholder = r.placeholder
      /\ i.rendered = r.rendered /\ i.buffer = r.buffer /\ i.reader = r.reader
      /\ i.loops = r.loops /\ i.timer = r.timer /\ i.clock = r.clock
      /\ i.force = r.force /\ i.canvas = r.canvas /\ i.config = r.config
      /\ i.queue = r.queue /\ i.doing = "idle" /\ i.call = Message("none")
  BY <1>1, <1>2 DEF WorkerStates, Steps
<1> HIDE DEF i
<1>5. Silent(w) /\ ~w.closed
  BY DEF WorkerInv, Resting, Sound
<1>6. Resting(i, a) /\ i.reader \in i.loops \cup {0}
  BY <1>0, <1>2, <1>4, <1>5, EmptySeq DEF WorkerInv, Resting, Sound, Silent, ShowsOnly, Sized
<1>7. LET v == Started(Idle(r))
      IN  /\ v \in WorkerStates /\ WorkerInv(v, a) /\ v.force = w.force /\ ~v.closed
          /\ v.paused = w.paused /\ v.config = First /\ v.queue = <<>> /\ v.doing = "idle"
  BY <1>2, <1>3, <1>4, <1>5, <1>6, StartedKeeps DEF Alike, Silent
<1>8. LET v == Closed(Idle(w))
      IN  /\ v \in WorkerStates /\ WorkerInv(v, a) /\ v.force /\ v.closed
          /\ v.config = None /\ v.queue = <<>> /\ v.doing = "idle"
  <2>1. Sound(w)
    BY DEF WorkerInv, Resting
  <2>2. Idle(w) \in WorkerStates /\ Sound(Idle(w)) /\ Idle(w).doing = "idle"
    BY <2>1, IdleMoves
  <2>3. Sized(Idle(w)) /\ Idle(w).doing # "init"
    BY <2>2 DEF Sound
  <2> QED
    BY <2>2, <2>3, ClosedMoves
<1> QED
  BY <1>7, <1>8 DEF r
-----------------------------------------------------------------------------
(* Queues of messages.                                                     *)

LEMMA Appended ==
  ASSUME NEW q \in Seq(Messages), NEW m \in Messages
  PROVE  LET r == Append(q, m)
         IN  /\ r \in Seq(Messages) /\ r # <<>> /\ q \o <<m>> = r /\ Len(q) \in Nat
             /\ Head(r) = (IF q = <<>> THEN m ELSE Head(q))
             /\ Len(q) + 1 \in DOMAIN r /\ r[Len(q) + 1] = m
             /\ \A n \in DOMAIN q : n \in DOMAIN r /\ r[n] = q[n] /\ n \in Nat /\ n < Len(q) + 1
             /\ \A n \in DOMAIN r : n \in DOMAIN q \/ n = Len(q) + 1
             /\ \A t \in Types : Has(r, t) <=> Has(q, t) \/ m.type = t
<1> DEFINE r == Append(q, m)
<1>1. /\ r \in Seq(Messages) /\ Len(q) \in Nat
      /\ Len(q) + 1 \in DOMAIN r /\ r[Len(q) + 1] = m
      /\ \A n \in DOMAIN q : n \in DOMAIN r /\ r[n] = q[n] /\ n \in Nat /\ n < Len(q) + 1
      /\ \A n \in DOMAIN r : n \in DOMAIN q \/ n = Len(q) + 1
  OBVIOUS
<1>2. r # <<>> /\ q \o <<m>> = r
  <2>1. q \o <<m>> = r
    OBVIOUS
  <2>2. Len(r) = Len(q) + 1
    OBVIOUS
  <2> QED
    BY <1>1, <2>1, <2>2, EmptySeq
<1>3. Head(r) = (IF q = <<>> THEN m ELSE Head(q))
  <2>1. CASE q = <<>>
    BY <2>1
  <2>2. CASE q # <<>>
    <3>1. Len(q) \in Nat \ {0}
      BY <2>2, EmptySeq
    <3> QED
      BY <2>2, <3>1
  <2> QED
    BY <2>1, <2>2
<1>4. ASSUME NEW t \in Types PROVE Has(r, t) <=> Has(q, t) \/ m.type = t
  <2> HIDE DEF r
  <2> QED
    BY <1>1 DEF Has
<1> QED
  BY <1>1, <1>2, <1>3, <1>4

LEMMA Taken ==
  ASSUME NEW q \in Seq(Messages), q # <<>>
  PROVE  LET r == Tail(q)
         IN  /\ r \in Seq(Messages) /\ Head(q) \in Messages
             /\ 1 \in DOMAIN q /\ q[1] = Head(q)
             /\ \A n \in DOMAIN q : n \in Nat /\ n >= 1
             /\ \A n \in DOMAIN r : n \in Nat /\ n >= 1 /\ n + 1 \in DOMAIN q /\ r[n] = q[n + 1]
             /\ \A n \in DOMAIN q : n = 1 \/ (n - 1 \in DOMAIN r /\ r[n - 1] = q[n])
             /\ \A t \in Types : Has(r, t) => Has(q, t)
             /\ \A t \in Types : Has(q, t) => Has(r, t) \/ Head(q).type = t
<1> DEFINE r == Tail(q)
<1>0. Len(q) \in Nat \ {0}
  BY EmptySeq
<1>1. /\ r \in Seq(Messages) /\ Head(q) \in Messages /\ Len(r) = Len(q) - 1
      /\ 1 \in DOMAIN q /\ q[1] = Head(q)
      /\ \A n \in DOMAIN q : n \in Nat /\ n >= 1
      /\ \A n \in DOMAIN r : n \in Nat /\ n >= 1 /\ n + 1 \in DOMAIN q /\ r[n] = q[n + 1]
  BY <1>0
<1>2. \A n \in DOMAIN q : n = 1 \/ (n - 1 \in DOMAIN r /\ r[n - 1] = q[n])
  BY <1>0, <1>1
<1>3. ASSUME NEW t \in Types PROVE (Has(r, t) => Has(q, t)) /\ (Has(q, t) => Has(r, t) \/ Head(q).type = t)
  <2> HIDE DEF r
  <2> QED
    BY <1>1, <1>2 DEF Has
<1> QED
  BY <1>1, <1>2, <1>3

LEMMA Nothing ==
  /\ <<>> \in Seq(Messages) /\ DOMAIN <<>> = {} /\ \A t \in Types : ~Has(<<>>, t)
  /\ \A q \in Seq(Messages) : q \o <<>> = q
<1>1. <<>> \in Seq(Messages) /\ DOMAIN <<>> = {}
  OBVIOUS
<1>2. \A q \in Seq(Messages) : q \o <<>> = q
  OBVIOUS
<1> QED
  BY <1>1, <1>2 DEF Has
-----------------------------------------------------------------------------
(* What a step means to the page.                                          *)

(* The page lets go of the worker, or has done so.                         *)
LEMMA LetGo ==
  ASSUME ShapeInv, LoadInv, page'.phase \in {"closing", "terminated"},
         page'.quality = None, page'.source = 0,
         \A n \in DOMAIN inbox' : inbox'[n].type = "init" => n = 1 /\ worker'.closed /\ worker'.doing = "idle",
         \A n \in DOMAIN inbox' : inbox'[n].type = "source" => inbox'[n].source \in Sources,
         \A n \in DOMAIN outbox' : outbox'[n].key => outbox'[n].type = "packet"
  PROVE  PageInv'
BY DEF PageInv, LoadInv, Open

Asking == {"source", "placeholder", "transport-pause", "transport-resume"}

(* A message that is no change of quality is posted to the worker.         *)
LEMMA PageAsks ==
  ASSUME ShapeInv, PageInv, page.phase = "ready", page'.phase = "ready", page'.quality = page.quality,
         UNCHANGED <<wire, outbox, worker>>,
         NEW m \in Messages, inbox' = Append(inbox, m),
         m.type \in Asking, m.type = "source" => m.source \in Sources,
         congested /\ ~congested' => m.type = "transport-resume"
  PROVE  PageInv'
<1>1. inbox \in Seq(Messages)
  BY DEF ShapeInv
<1>2. /\ inbox'[Len(inbox) + 1] = m
      /\ \A n \in DOMAIN inbox : n \in DOMAIN inbox' /\ inbox'[n] = inbox[n]
      /\ \A n \in DOMAIN inbox' : n \in DOMAIN inbox \/ n = Len(inbox) + 1
      /\ \A t \in Types : Has(inbox', t) <=> Has(inbox, t) \/ m.type = t
  BY <1>1, Appended
<1>3. LoadInv'
  BY <1>2 DEF PageInv, LoadInv, Open, Unloaded, Types, Asking
<1>4. ChangeInv /\ ResumeInv /\ QualityInv /\ GapInv
  BY DEF PageInv, Open
<1>5. ChangeInv'
  BY <1>2, <1>4 DEF ChangeInv, Asked, Changing, Answered, Types, Asking
<1>6. ResumeInv'
  BY <1>2, <1>4 DEF ResumeInv, Changing, Answered, Types, Asking
<1>7. QualityInv'
  BY <1>4 DEF QualityInv
<1>8. GapInv'
  BY <1>2, <1>4 DEF GapInv, Healing, Types, Asking
<1> QED
  BY <1>3, <1>5, <1>6, <1>7, <1>8 DEF PageInv

(* The worker reads a message that changes little.                         *)
LEMMA Obeyed ==
  ASSUME ShapeInv, PageInv, worker.doing = "idle", inbox # <<>>, inbox' = Tail(inbox),
         UNCHANGED <<page, congested, wire, outbox>>,
         Head(inbox).type # "init", Head(inbox).type = "reconfigure" => worker.closed,
         worker'.closed = worker.closed, worker'.config = worker.config, worker'.queue = worker.queue,
         worker'.paused = worker.paused \/ Head(inbox).type = "resume",
         worker'.doing \notin {"init", "support", "flush"},
         \/ worker'.force
         \/ worker'.force = worker.force /\ (Head(inbox).type \in {"resume", "transport-resume"} => worker.closed)
  PROVE  PageInv'
<1>1. inbox \in Seq(Messages) /\ outbox \in Seq(Messages)
  BY DEF ShapeInv
<1> DEFINE t == Head(inbox).type
<1>2. /\ Head(inbox) \in Messages /\ 1 \in DOMAIN inbox /\ inbox[1] = Head(inbox)
      /\ \A n \in DOMAIN inbox' : n \in Nat /\ n >= 1 /\ n + 1 \in DOMAIN inbox /\ inbox'[n] = inbox[n + 1]
      /\ \A s \in Types : Has(inbox', s) => Has(inbox, s)
      /\ \A s \in Types : Has(inbox, s) => Has(inbox', s) \/ t = s
  BY <1>1, Taken
<1>3. \A n \in DOMAIN inbox' : inbox'[n].type # "init"
  BY <1>2 DEF PageInv, LoadInv
<1>4. ~Has(inbox, "init") /\ ~Has(inbox', "init")
  <2>1. \A n \in DOMAIN inbox : inbox[n].type = "init" => n = 1
    BY DEF PageInv, LoadInv
  <2> QED
    BY <1>2, <1>3, <2>1 DEF Has
<1>5. LoadInv'
  BY <1>2, <1>3, <1>4 DEF PageInv, LoadInv, Open, Unloaded, Types
<1>6. CASE Open
  <2>1. ChangeInv /\ ResumeInv /\ QualityInv /\ GapInv
    BY <1>6 DEF PageInv
  <2>2. worker.closed => \E n \in DOMAIN outbox : outbox[n].type = "error"
    BY <1>4, <1>6 DEF PageInv, LoadInv, Has
  <2>3. ChangeInv'
    BY <1>2, <2>1 DEF ChangeInv, Asked, Changing, Answered, Types
  <2>4. ResumeInv'
    BY <1>2, <2>1 DEF ResumeInv, Changing, Answered, Types
  <2>5. t = "resume" => ~Answered
    BY <1>2, <2>1 DEF ResumeInv, Has
  <2>6. QualityInv'
    BY <2>1, <2>5 DEF QualityInv, Answered, Answers, Has
  <2>7. GapInv'
    BY <1>2, <2>1, <2>2 DEF GapInv, Healing, Types
  <2> QED
    BY <1>5, <2>3, <2>4, <2>6, <2>7 DEF PageInv
<1> QED
  BY <1>5, <1>6 DEF PageInv, Open

(* The worker goes on without a word, and may have put a packet in its     *)
(* encoder.                                                                *)
LEMMA GoesOn ==
  ASSUME ShapeInv, PageInv, Sound(worker),
         UNCHANGED <<page, congested, wire, inbox, outbox>>,
         worker'.closed = worker.closed, worker'.config = worker.config, worker'.paused = worker.paused,
         worker'.call = worker.call, worker'.doing = worker.doing,
         \/ worker'.queue = worker.queue /\ (worker.force => worker'.force)
         \/ \E m \in Messages : /\ worker'.queue = Append(worker.queue, m) /\ (worker.force => m.key)
                                /\ worker.timer
  PROVE  PageInv'
<1>1. LoadInv'
  BY DEF PageInv, LoadInv, Open, Unloaded
<1>2. CASE Open
  <2>1. ChangeInv /\ ResumeInv /\ QualityInv /\ GapInv
    BY <1>2 DEF PageInv
  <2>2. ChangeInv' /\ ResumeInv'
    BY <2>1 DEF ChangeInv, ResumeInv, Asked, Changing, Answered
  <2>3. CASE worker'.queue = worker.queue /\ (worker.force => worker'.force)
    BY <1>1, <2>1, <2>2, <2>3 DEF PageInv, QualityInv, GapInv, Healing
  <2>4. ASSUME NEW m \in Messages, worker'.queue = Append(worker.queue, m), worker.force => m.key, worker.timer
        PROVE  PageInv'
    <3>1. ~worker.paused
      BY <2>4 DEF Sound
    <3>2. QualityInv'
      BY <2>1, <3>1 DEF QualityInv
    <3>3. /\ Len(worker.queue) + 1 \in DOMAIN worker'.queue /\ worker'.queue[Len(worker.queue) + 1] = m
          /\ \A n \in DOMAIN worker.queue : n \in DOMAIN worker'.queue /\ worker'.queue[n] = worker.queue[n]
      <4>1. worker.queue \in Seq(Messages)
        BY DEF ShapeInv, WorkerStates
      <4> QED
        BY <2>4, <4>1, Appended
    <3>4. GapInv'
      BY <2>1, <2>4, <3>3 DEF GapInv, Healing
    <3> QED
      BY <1>1, <2>2, <3>2, <3>4 DEF PageInv
  <2> QED
    BY <2>3, <2>4
<1> QED
  BY <1>1, <1>2 DEF PageInv, Open

(* The worker says that it shows a source.                                 *)
LEMMA SaysReady ==
  ASSUME ShapeInv, PageInv, UNCHANGED <<page, congested, wire, inbox>>,
         worker'.closed = worker.closed, worker'.config = worker.config, worker'.paused = worker.paused,
         worker'.queue = worker.queue, worker.force => worker'.force,
         worker.doing \notin {"init", "idle"}, worker'.doing = "idle",
         outbox' = Append(outbox, Message("source-ready"))
  PROVE  PageInv'
<1> DEFINE m == Message("source-ready")
<1>0. m \in Messages /\ m.type = "source-ready" /\ ~m.key
  BY MessageShape DEF Types
<1> HIDE DEF m
<1>1. outbox \in Seq(Messages) /\ outbox' = Append(outbox, m)
  BY DEF ShapeInv, m
<1>2. /\ outbox' # <<>> /\ Head(outbox') = (IF outbox = <<>> THEN m ELSE Head(outbox))
      /\ outbox'[Len(outbox) + 1] = m
      /\ \A n \in DOMAIN outbox : n \in DOMAIN outbox' /\ outbox'[n] = outbox[n]
      /\ \A n \in DOMAIN outbox' : n \in DOMAIN outbox \/ n = Len(outbox) + 1
      /\ \A t \in Types : Has(outbox', t) <=> Has(outbox, t) \/ m.type = t
  BY <1>0, <1>1, Appended
<1>3. ~Has(inbox, "init")
  BY DEF PageInv, LoadInv, Has
<1>4. LoadInv'
  BY <1>0, <1>2, <1>3 DEF PageInv, LoadInv, Open, Unloaded, Types
<1>5. CASE Open
  <2>1. ChangeInv /\ ResumeInv /\ QualityInv /\ GapInv
    BY <1>5 DEF PageInv
  <2>2. ChangeInv'
    BY <1>0, <1>2, <2>1 DEF ChangeInv, Asked, Changing, Answered, Answers
  <2>3. ResumeInv'
    BY <1>0, <1>2, <2>1 DEF ResumeInv, Changing, Answered, Answers
  <2>4. QualityInv'
    BY <1>0, <1>2, <2>1 DEF QualityInv, Types
  <2>5. GapInv'
    BY <1>0, <1>2, <2>1 DEF GapInv, Healing
  <2> QED
    BY <1>4, <2>2, <2>3, <2>4, <2>5 DEF PageInv
<1> QED
  BY <1>4, <1>5 DEF PageInv, Open

(* It fails, also while a command waits.                                   *)
LEMMA Fails ==
  ASSUME ShapeInv, PageInv, UNCHANGED <<page, congested, wire, inbox>>,
         ~worker.closed, worker'.closed, worker'.config = None, worker'.queue = <<>>, worker'.force,
         worker.doing # "init", worker'.doing = worker.doing, worker'.call = worker.call,
         outbox' = Append(outbox, Message("error"))
  PROVE  PageInv'
<1> DEFINE m == Message("error")
<1>0. m \in Messages /\ m.type = "error" /\ ~m.key
  BY MessageShape DEF Types
<1> HIDE DEF m
<1>1. outbox \in Seq(Messages) /\ outbox' = Append(outbox, m)
  BY DEF ShapeInv, m
<1>2. /\ outbox' # <<>> /\ Head(outbox') = (IF outbox = <<>> THEN m ELSE Head(outbox))
      /\ outbox'[Len(outbox) + 1] = m
      /\ \A n \in DOMAIN outbox : n \in DOMAIN outbox' /\ outbox'[n] = outbox[n]
      /\ \A n \in DOMAIN outbox' : n \in DOMAIN outbox \/ n = Len(outbox) + 1
      /\ \A t \in Types : Has(outbox', t) <=> Has(outbox, t) \/ m.type = t
  BY <1>0, <1>1, Appended
<1>3. ~Has(inbox, "init")
  BY DEF PageInv, LoadInv, Has
<1>4. LoadInv'
  BY <1>0, <1>2, <1>3 DEF PageInv, LoadInv, Open, Unloaded, Types
<1>5. CASE Open
  <2>1. ChangeInv /\ ResumeInv /\ QualityInv /\ GapInv
    BY <1>5 DEF PageInv
  <2>2. ChangeInv'
    BY <1>0, <1>2, <2>1 DEF ChangeInv, Asked, Changing, Answered, Answers
  <2>3. ResumeInv'
    BY <1>0, <1>2, <2>1 DEF ResumeInv, Changing, Answered, Answers
  <2>4. QualityInv'
    BY <1>0, <1>2, <2>1 DEF QualityInv, Types
  <2>5. GapInv'
    BY DEF GapInv, Healing
  <2> QED
    BY <1>4, <2>2, <2>3, <2>4, <2>5 DEF PageInv
<1> QED
  BY <1>4, <1>5 DEF PageInv, Open

(* The codec puts a packet out.                                            *)
LEMMA PutsOut ==
  ASSUME ShapeInv, PageInv, UNCHANGED <<page, congested, wire, inbox>>,
         worker'.closed = worker.closed, worker'.config = worker.config, worker'.paused = worker.paused,
         worker'.call = worker.call, worker'.doing = worker.doing, worker'.force = worker.force,
         ~worker.closed, worker.doing # "init", worker.queue # <<>>, worker'.queue = Tail(worker.queue),
         NEW m \in Messages, m = Head(worker.queue), m.type = "packet", m.quality = worker.config,
         worker.config # None, outbox' = Append(outbox, m)
  PROVE  PageInv'
<1>1. outbox \in Seq(Messages) /\ worker.queue \in Seq(Messages)
  BY DEF ShapeInv, WorkerStates
<1>2. /\ outbox' # <<>> /\ Head(outbox') = (IF outbox = <<>> THEN m ELSE Head(outbox))
      /\ outbox'[Len(outbox) + 1] = m /\ Len(outbox) + 1 \in DOMAIN outbox'
      /\ \A n \in DOMAIN outbox : n \in DOMAIN outbox' /\ outbox'[n] = outbox[n]
      /\ \A n \in DOMAIN outbox' : n \in DOMAIN outbox \/ n = Len(outbox) + 1
      /\ \A t \in Types : Has(outbox', t) <=> Has(outbox, t) \/ m.type = t
  BY <1>1, Appended
<1>3. ~Has(inbox, "init")
  BY DEF PageInv, LoadInv, Has
<1>4. LoadInv'
  BY <1>2, <1>3 DEF PageInv, LoadInv, Open, Unloaded, Types
<1>5. CASE Open
  <2>1. ChangeInv /\ ResumeInv /\ QualityInv /\ GapInv
    BY <1>5 DEF PageInv
  <2>2. ChangeInv'
    BY <1>2, <2>1 DEF ChangeInv, Asked, Changing, Answered, Answers
  <2>3. ResumeInv'
    BY <1>2, <2>1 DEF ResumeInv, Changing, Answered, Answers
  <2>4. ~Has(outbox, "reconfigured") /\ ~Has(outbox', "reconfigured") /\ worker.config = wire.quality
    BY <1>2, <2>1 DEF QualityInv, Types
  <2>5. QualityInv'
    BY <1>2, <2>1, <2>4 DEF QualityInv, Has
  <2>6. \A n \in DOMAIN worker.queue :
          worker.queue[n] = m \/ \E k \in DOMAIN worker'.queue : worker'.queue[k] = worker.queue[n]
    <3>1. /\ worker.queue[1] = m
          /\ \A n \in DOMAIN worker.queue :
               n = 1 \/ (n - 1 \in DOMAIN worker'.queue /\ worker'.queue[n - 1] = worker.queue[n])
      BY <1>1, Taken
    <3> QED
      BY <3>1
  <2>7. GapInv'
    BY <1>2, <2>1, <2>6 DEF GapInv, Healing
  <2> QED
    BY <1>4, <2>2, <2>3, <2>5, <2>7 DEF PageInv
<1> QED
  BY <1>4, <1>5 DEF PageInv, Open

(* It closes, which it does not do before the page lets go.                *)
LEMMA Closes ==
  ASSUME ShapeInv, PageInv, UNCHANGED <<page, congested, wire>>,
         inbox # <<>>, Head(inbox).type = "close", inbox' = Tail(inbox),
         outbox' = Append(outbox, Message("closed"))
  PROVE  PageInv'
<1> DEFINE m == Message("closed")
<1>0. m \in Messages /\ m.type = "closed" /\ ~m.key
  BY MessageShape DEF Types
<1> HIDE DEF m
<1>1. outbox \in Seq(Messages) /\ outbox' = Append(outbox, m) /\ inbox \in Seq(Messages)
  BY DEF ShapeInv, m
<1>2. /\ outbox'[Len(outbox) + 1] = m
      /\ \A n \in DOMAIN outbox : n \in DOMAIN outbox' /\ outbox'[n] = outbox[n]
      /\ \A n \in DOMAIN outbox' : n \in DOMAIN outbox \/ n = Len(outbox) + 1
  BY <1>0, <1>1, Appended
<1>3. /\ 1 \in DOMAIN inbox /\ inbox[1] = Head(inbox)
      /\ \A n \in DOMAIN inbox' : n \in Nat /\ n >= 1 /\ n + 1 \in DOMAIN inbox /\ inbox'[n] = inbox[n + 1]
  BY <1>1, Taken
<1>4. ~Open /\ page.phase \in {"closing", "terminated"}
  BY <1>3 DEF PageInv, LoadInv, Has, Open, ShapeInv, Pages
<1>5. page.quality = None /\ page.source = 0
  BY <1>4 DEF PageInv, LoadInv
<1>6. \A n \in DOMAIN inbox' : /\ inbox'[n].type # "init"
                               /\ inbox'[n].type = "source" => inbox'[n].source \in Sources
  BY <1>3 DEF PageInv, LoadInv
<1>7. \A n \in DOMAIN outbox' : outbox'[n].key => outbox'[n].type = "packet"
  BY <1>0, <1>2 DEF PageInv, LoadInv
<1> QED
  BY <1>4, <1>5, <1>6, <1>7, LetGo DEF PageInv

-----------------------------------------------------------------------------
(* A change of quality, from the call to the resume.                       *)

LEMMA PageAsksChange ==
  ASSUME ShapeInv, PageInv, page.phase = "ready", page'.phase = "ready",
         page.quality = None, page'.quality # None,
         UNCHANGED <<congested, wire, outbox, worker>>,
         NEW m \in Messages, m.type = "reconfigure", m.quality = page'.quality,
         inbox' = Append(inbox, m)
  PROVE  PageInv'
<1>1. inbox \in Seq(Messages)
  BY DEF ShapeInv
<1>2. /\ inbox'[Len(inbox) + 1] = m
      /\ \A n \in DOMAIN inbox : n \in DOMAIN inbox' /\ inbox'[n] = inbox[n] /\ n < Len(inbox) + 1
      /\ \A n \in DOMAIN inbox' : n \in DOMAIN inbox \/ n = Len(inbox) + 1
      /\ \A t \in Types : Has(inbox', t) <=> Has(inbox, t) \/ m.type = t
  BY <1>1, Appended
<1>3. LoadInv'
  BY <1>2 DEF PageInv, LoadInv, Open, Unloaded, Types
<1>4. ChangeInv /\ ResumeInv /\ QualityInv /\ GapInv /\ ~Asked /\ ~Changing /\ ~Answered
  BY DEF PageInv, Open, ChangeInv
<1>5. ChangeInv'
  BY <1>2, <1>4 DEF ChangeInv, Asked, Changing, Answered, Has
<1>6. ResumeInv'
  BY <1>2, <1>4 DEF ResumeInv, Changing, Answered, Types, Asked, Has
<1>7. ~Has(outbox, "reconfigured")
  BY <1>4 DEF Has, Answered, Answers
<1>8. QualityInv'
  BY <1>4, <1>7 DEF QualityInv
<1>9. GapInv'
  BY <1>2, <1>4 DEF GapInv, Healing, Types
<1> QED
  BY <1>3, <1>5, <1>6, <1>8, <1>9 DEF PageInv

LEMMA ChangeBegins ==
  ASSUME ShapeInv, PageInv, worker.doing = "idle", ~worker.closed,
         inbox # <<>>, Head(inbox).type = "reconfigure", inbox' = Tail(inbox),
         UNCHANGED <<page, congested, wire, outbox>>,
         worker'.closed = worker.closed, worker'.config = worker.config, worker'.queue = worker.queue,
         worker'.paused = worker.paused, worker'.force = worker.force,
         worker'.doing = "support", worker'.call = Head(inbox)
  PROVE  PageInv'
<1>1. inbox \in Seq(Messages)
  BY DEF ShapeInv
<1>2. /\ Head(inbox) \in Messages /\ 1 \in DOMAIN inbox /\ inbox[1] = Head(inbox)
      /\ \A n \in DOMAIN inbox' : n \in Nat /\ n >= 1 /\ n + 1 \in DOMAIN inbox /\ inbox'[n] = inbox[n + 1]
      /\ \A n \in DOMAIN inbox : n \in Nat /\ n >= 1
      /\ \A s \in Types : Has(inbox', s) => Has(inbox, s)
      /\ \A s \in Types : Has(inbox, s) => Has(inbox', s) \/ Head(inbox).type = s
  BY <1>1, Taken
<1>3. ~Has(inbox, "init")
  BY DEF PageInv, LoadInv, Has
<1>4. LoadInv'
  BY <1>2, <1>3 DEF PageInv, LoadInv, Open, Unloaded, Types
<1>5. CASE Open
  <2>1. ChangeInv /\ ResumeInv /\ QualityInv /\ GapInv
    BY <1>5 DEF PageInv
  <2>2. Asked /\ page.quality # None /\ ~Answered /\ ~Changing
    BY <1>2, <2>1 DEF ChangeInv, Asked, Has
  <2>3. ~Has(inbox', "reconfigure") /\ ~Has(inbox, "resume") /\ ~Has(inbox', "resume")
    <3>1. \A n \in DOMAIN inbox : inbox[n].type = "reconfigure" => n = 1
      BY <1>2, <2>1 DEF ChangeInv
    <3>2. \A n \in DOMAIN inbox : inbox[n].type # "resume"
      BY <1>2, <2>1 DEF ResumeInv
    <3> QED
      BY <1>2, <3>1, <3>2 DEF Has
  <2>4. ChangeInv'
    BY <1>2, <2>1, <2>2, <2>3 DEF ChangeInv, Asked, Changing, Answered, Has
  <2>5. ResumeInv'
    BY <2>3 DEF ResumeInv, Has
  <2>6. QualityInv'
    BY <2>1 DEF QualityInv
  <2>7. GapInv'
    BY <1>2, <2>1 DEF GapInv, Healing, Types
  <2> QED
    BY <1>4, <2>4, <2>5, <2>6, <2>7 DEF PageInv
<1> QED
  BY <1>4, <1>5 DEF PageInv, Open

LEMMA ChangePauses ==
  ASSUME ShapeInv, PageInv, UNCHANGED <<page, congested, wire, inbox, outbox>>,
         worker.doing = "support", worker'.doing = "flush", worker'.paused,
         worker'.closed = worker.closed, worker'.config = worker.config, worker'.queue = worker.queue,
         worker'.call = worker.call, worker'.force = worker.force
  PROVE  PageInv'
<1>1. ~Has(inbox, "init")
  BY DEF PageInv, LoadInv, Has
<1>2. LoadInv'
  BY <1>1 DEF PageInv, LoadInv, Open, Unloaded
<1>3. CASE Open
  <2>1. ChangeInv /\ ResumeInv /\ QualityInv /\ GapInv
    BY <1>3 DEF PageInv
  <2>2. ChangeInv' /\ ResumeInv'
    BY <2>1 DEF ChangeInv, ResumeInv, Asked, Changing, Answered
  <2>3. QualityInv' /\ GapInv'
    BY <2>1 DEF QualityInv, GapInv, Healing
  <2> QED
    BY <1>2, <2>2, <2>3 DEF PageInv
<1> QED
  BY <1>2, <1>3 DEF PageInv, Open

(* The worker answers: the change is made, or given up.                    *)
LEMMA ChangeAnswered ==
  ASSUME ShapeInv, PageInv, UNCHANGED <<page, congested, wire, inbox>>,
         Changing, worker'.doing = "idle", worker'.closed = worker.closed,
         NEW type \in Answers, outbox' = Append(outbox, Message(type)),
         worker.force => worker'.force, worker'.queue = worker.queue,
         IF type = "reconfigured" /\ ~worker.closed
           THEN /\ worker.queue = <<>> /\ worker.doing = "flush"
                /\ worker'.config = worker.call.quality /\ worker'.paused = worker.paused
           ELSE worker'.config = worker.config
  PROVE  PageInv'
<1> DEFINE m == Message(type)
<1>0. m \in Messages /\ m.type = type /\ ~m.key /\ type \in Types
  BY MessageShape DEF Types, Answers
<1> HIDE DEF m
<1>1. outbox \in Seq(Messages) /\ outbox' = Append(outbox, m)
  BY DEF ShapeInv, m
<1>2. /\ outbox' # <<>> /\ Head(outbox') = (IF outbox = <<>> THEN m ELSE Head(outbox))
      /\ outbox'[Len(outbox) + 1] = m
      /\ \A n \in DOMAIN outbox : n \in DOMAIN outbox' /\ outbox'[n] = outbox[n] /\ n < Len(outbox) + 1
      /\ \A n \in DOMAIN outbox' : n \in DOMAIN outbox \/ n = Len(outbox) + 1
      /\ \A t \in Types : Has(outbox', t) <=> Has(outbox, t) \/ m.type = t
  BY <1>0, <1>1, Appended
<1>3. ~Has(inbox, "init")
  BY DEF PageInv, LoadInv, Has, Changing
<1>4. LoadInv'
  BY <1>0, <1>2, <1>3 DEF PageInv, LoadInv, Open, Unloaded, Types, Answers, Changing
<1>5. CASE Open
  <2>1. ChangeInv /\ ResumeInv /\ QualityInv /\ GapInv
    BY <1>5 DEF PageInv
  <2>2. ~Answered /\ ~Asked /\ ~Has(inbox, "resume") /\ page.quality # None
    BY <2>1 DEF ChangeInv, ResumeInv
  <2>3. ~Changing'
    BY DEF Changing
  <2>4. ChangeInv'
    BY <1>2, <2>1, <2>2, <2>3 DEF ChangeInv, Asked, Answered
  <2>5. ResumeInv'
    BY <2>1, <2>2 DEF ResumeInv, Has
  <2>6. ~Has(outbox, "reconfigured")
    BY <2>2 DEF Answered, Answers, Has
  <2>7. QualityInv'
    <3>1. CASE type = "reconfigured" /\ ~worker.closed
      <4>1. worker'.config = page.quality /\ worker'.paused /\ worker'.queue = <<>>
        BY <2>1, <3>1 DEF ChangeInv
      <4>2. Has(outbox', "reconfigured")
        BY <1>0, <1>2, <3>1
      <4> QED
        BY <1>0, <1>2, <2>1, <2>6, <3>1, <4>1, <4>2 DEF QualityInv, Has
    <3>2. CASE type # "reconfigured"
      <4>1. ~Has(outbox', "reconfigured")
        BY <1>0, <1>2, <2>6, <3>2 DEF Types
      <4> QED
        BY <1>0, <1>2, <2>1, <2>6, <3>2, <4>1 DEF QualityInv, Has, Answers
    <3>3. CASE type = "reconfigured" /\ worker.closed
      <4>1. Has(outbox', "reconfigured") /\ worker'.closed
        BY <1>0, <1>2, <3>3
      <4> QED
        BY <1>0, <1>2, <2>1, <2>6, <3>3, <4>1 DEF QualityInv, Has
    <3> QED
      BY <3>1, <3>2, <3>3
  <2>8. GapInv'
    BY <1>0, <1>2, <2>1 DEF GapInv, Healing
  <2> QED
    BY <1>4, <2>4, <2>5, <2>7, <2>8 DEF PageInv
<1> QED
  BY <1>4, <1>5 DEF PageInv, Open

-----------------------------------------------------------------------------
(* The worker loads, and the page hears of it.                             *)

LEMMA Loads ==
  ASSUME ShapeInv, PageInv, worker.doing = "idle", inbox # <<>>, Head(inbox).type = "init",
         inbox' = Tail(inbox), UNCHANGED <<page, congested, wire, outbox>>,
         ~worker'.closed, worker'.config = None, worker'.queue = <<>>, worker'.paused = worker.paused,
         worker'.force = worker.force, worker'.doing = "init",
         worker.closed => worker.config = None /\ worker.queue = <<>>
  PROVE  PageInv'
<1>1. inbox \in Seq(Messages)
  BY DEF ShapeInv
<1>2. /\ Head(inbox) \in Messages /\ 1 \in DOMAIN inbox /\ inbox[1] = Head(inbox)
      /\ \A n \in DOMAIN inbox' : n \in Nat /\ n >= 1 /\ n + 1 \in DOMAIN inbox /\ inbox'[n] = inbox[n + 1]
      /\ \A s \in Types : Has(inbox', s) => Has(inbox, s)
  BY <1>1, Taken
<1>3. Has(inbox, "init") /\ page.phase # "ready" /\ worker.closed
  BY <1>2 DEF PageInv, LoadInv, Has, Unloaded
<1>4. \A n \in DOMAIN inbox' : inbox'[n].type # "init"
  BY <1>2 DEF PageInv, LoadInv
<1>5. LoadInv'
  BY <1>2, <1>3, <1>4 DEF PageInv, LoadInv, Open, Unloaded, Types, Has
<1>6. CASE Open
  <2>0. page.phase = "starting" /\ outbox = <<>>
    BY <1>3, <1>6 DEF Open, PageInv, LoadInv, Unloaded
  <2>1. inbox' = <<>>
    <3>1. \A n \in DOMAIN inbox' : FALSE
      BY <1>2, <1>4, <2>0 DEF PageInv, LoadInv
    <3> QED
      BY <1>1, <1>2, <3>1
  <2>2. ChangeInv /\ ResumeInv /\ QualityInv /\ GapInv
    BY <1>6 DEF PageInv
  <2>3. ChangeInv' /\ ResumeInv'
    BY <2>0, <2>1, <2>2, Nothing DEF ChangeInv, ResumeInv, Asked, Changing, Answered, Types, Has
  <2>4. QualityInv'
    BY <2>0, Nothing DEF QualityInv, Types
  <2>5. GapInv'
    BY <1>3, <2>0, <2>2, Nothing DEF GapInv, Healing
  <2> QED
    BY <1>5, <2>3, <2>4, <2>5 DEF PageInv
<1> QED
  BY <1>5, <1>6 DEF PageInv, Open

LEMMA LoadIsDone ==
  ASSUME ShapeInv, PageInv, UNCHANGED <<page, congested, wire, inbox>>,
         worker.doing = "init", worker'.doing = "idle", worker'.queue = <<>>,
         worker.force => worker'.force, worker.queue = <<>>,
         NEW type \in {"ready", "error"}, outbox' = Append(outbox, Message(type)),
         IF type = "ready" THEN ~worker'.closed /\ worker'.config = First
         ELSE worker'.closed /\ worker'.config = None /\ worker'.force
  PROVE  PageInv'
<1> DEFINE m == Message(type)
<1>0. m \in Messages /\ m.type = type /\ ~m.key
  BY MessageShape DEF Types
<1> HIDE DEF m
<1>1. outbox \in Seq(Messages) /\ outbox' = Append(outbox, m)
  BY DEF ShapeInv, m
<1>2. /\ outbox' # <<>> /\ Head(outbox') = (IF outbox = <<>> THEN m ELSE Head(outbox))
      /\ outbox'[Len(outbox) + 1] = m
      /\ \A n \in DOMAIN outbox : n \in DOMAIN outbox' /\ outbox'[n] = outbox[n]
      /\ \A n \in DOMAIN outbox' : n \in DOMAIN outbox \/ n = Len(outbox) + 1
      /\ \A t \in Types : Has(outbox', t) <=> Has(outbox, t) \/ m.type = t
  BY <1>0, <1>1, Appended
<1>3. ~Has(inbox, "init") /\ page.phase # "ready"
  BY DEF PageInv, LoadInv, Has, Unloaded
<1>4. page.phase = "starting" => outbox = <<>>
  BY DEF PageInv, LoadInv, Unloaded
<1>5. LoadInv'
  BY <1>0, <1>2, <1>3, <1>4 DEF PageInv, LoadInv, Open, Unloaded, Types
<1>6. CASE Open
  <2>0. page.phase = "starting" /\ outbox = <<>> /\ wire.quality = First
    BY <1>3, <1>4, <1>6 DEF Open, PageInv, LoadInv
  <2>1. ChangeInv /\ ResumeInv /\ QualityInv /\ GapInv
    BY <1>6 DEF PageInv
  <2>2. \A n \in DOMAIN outbox' : outbox'[n] = m
    BY <1>2, <2>0, Nothing
  <2>3. ChangeInv' /\ ResumeInv'
    BY <1>0, <1>2, <2>0, <2>1, <2>2 DEF ChangeInv, ResumeInv, Asked, Changing, Answered, Answers
  <2>4. QualityInv'
    BY <1>0, <2>0, <2>2 DEF QualityInv, Has
  <2>5. GapInv'
    BY <1>3, <2>0, <2>1, Nothing DEF GapInv, Healing
  <2> QED
    BY <1>5, <2>3, <2>4, <2>5 DEF PageInv
<1> QED
  BY <1>5, <1>6 DEF PageInv, Open

(* The page hears that the worker is ready.                                *)
LEMMA HearsReady ==
  ASSUME ShapeInv, PageInv, UNCHANGED <<congested, wire, worker>>,
         page.phase = "starting", page'.phase = "ready", page'.quality = page.quality,
         outbox # <<>>, Head(outbox).type = "ready", outbox' = Tail(outbox),
         \/ inbox' = inbox
         \/ inbox' = Append(inbox, Message("transport-pause"))
  PROVE  PageInv'
<1> DEFINE m == Message("transport-pause")
<1>0. m \in Messages /\ m.type = "transport-pause"
  BY MessageShape DEF Types
<1> HIDE DEF m
<1>1. outbox \in Seq(Messages) /\ inbox \in Seq(Messages)
  BY DEF ShapeInv
<1>2. /\ 1 \in DOMAIN outbox /\ outbox[1] = Head(outbox)
      /\ \A n \in DOMAIN outbox' : n \in Nat /\ n >= 1 /\ n + 1 \in DOMAIN outbox /\ outbox'[n] = outbox[n + 1]
      /\ \A n \in DOMAIN outbox : n = 1 \/ (n - 1 \in DOMAIN outbox' /\ outbox'[n - 1] = outbox[n])
      /\ \A s \in Types : Has(outbox', s) => Has(outbox, s)
      /\ \A s \in Types : Has(outbox, s) => Has(outbox', s) \/ Head(outbox).type = s
  BY <1>1, Taken
<1>3. ~Unloaded /\ ~Has(inbox, "init")
  BY DEF PageInv, LoadInv, Unloaded
<1>4. inbox = <<>>
  <2>1. \A n \in DOMAIN inbox : inbox[n].type = "init" /\ inbox[n].type # "init"
    BY <1>3 DEF PageInv, LoadInv, Has
  <2>2. inbox # <<>> => 1 \in DOMAIN inbox
    BY <1>1, Taken
  <2> QED
    BY <2>1, <2>2
<1>5. \A n \in DOMAIN inbox' : inbox'[n].type = "transport-pause"
  <2>1. CASE inbox' = inbox
    BY <1>4, <2>1, Nothing
  <2>2. CASE inbox' = Append(inbox, m)
    BY <1>0, <1>1, <1>4, <2>2, Appended, Nothing
  <2> QED
    BY <2>1, <2>2 DEF m
<1>6. ChangeInv /\ ResumeInv /\ QualityInv /\ GapInv
  BY DEF PageInv, Open
<1>7. LoadInv'
  <2>1. ~Has(inbox', "init") /\ ~Has(inbox', "close")
    BY <1>5 DEF Has
  <2>2. worker.closed => Has(outbox', "error")
    BY <1>2, <1>3 DEF PageInv, LoadInv, Open, Types
  <2>3. \A n \in DOMAIN inbox' : inbox'[n].type \notin {"init", "source"}
    BY <1>5
  <2>4. \A n \in DOMAIN outbox' : outbox'[n].key => outbox'[n].type = "packet"
    BY <1>2 DEF PageInv, LoadInv
  <2> QED
    BY <1>3, <2>1, <2>2, <2>3, <2>4 DEF LoadInv, Open, Unloaded
<1>8. ChangeInv'
  BY <1>2, <1>5, <1>6 DEF ChangeInv, Asked, Changing, Answered, Has
<1>9. ResumeInv'
  BY <1>5, <1>6 DEF ResumeInv, Has
<1>10. QualityInv'
  BY <1>2, <1>6 DEF QualityInv, Types
<1>11. ~outbox[1].key
  BY <1>2 DEF PageInv, LoadInv
<1>12. GapInv'
  BY <1>2, <1>6, <1>11 DEF GapInv, Healing
<1> QED
  BY <1>7, <1>8, <1>9, <1>10, <1>12 DEF PageInv

(* It hears what does not matter to the change or the gap, or no more.     *)
LEMMA HearsLittle ==
  ASSUME ShapeInv, PageInv, UNCHANGED <<congested, wire, worker, inbox>>,
         page.phase # "starting", page'.phase = page.phase,
         page'.quality = page.quality \/ (~Open /\ page'.quality = None),
         page'.source = page.source \/ page'.source = 0,
         outbox # <<>>, outbox' = Tail(outbox),
         Open => Head(outbox).type \notin {"packet", "error"} \cup Answers
  PROVE  PageInv'
<1>1. outbox \in Seq(Messages)
  BY DEF ShapeInv
<1>2. /\ 1 \in DOMAIN outbox /\ outbox[1] = Head(outbox)
      /\ \A n \in DOMAIN outbox' : n \in Nat /\ n >= 1 /\ n + 1 \in DOMAIN outbox /\ outbox'[n] = outbox[n + 1]
      /\ \A n \in DOMAIN outbox : n = 1 \/ (n - 1 \in DOMAIN outbox' /\ outbox'[n - 1] = outbox[n])
      /\ \A s \in Types : Has(outbox', s) => Has(outbox, s)
      /\ \A s \in Types : Has(outbox, s) => Has(outbox', s) \/ Head(outbox).type = s
  BY <1>1, Taken
<1>3. LoadInv'
  BY <1>2 DEF PageInv, LoadInv, Open, Unloaded, Types
<1>4. CASE Open
  <2>1. ChangeInv /\ ResumeInv /\ QualityInv /\ GapInv
    BY <1>4 DEF PageInv
  <2>2. ChangeInv'
    BY <1>2, <1>4, <2>1 DEF ChangeInv, Asked, Changing, Answered
  <2>3. ResumeInv'
    BY <1>2, <2>1 DEF ResumeInv, Changing, Answered
  <2>4. Has(outbox, "reconfigured") <=> Has(outbox', "reconfigured")
    BY <1>2, <1>4 DEF Types, Answers
  <2>5. QualityInv'
    BY <1>2, <1>4, <2>1, <2>4 DEF QualityInv
  <2>6. ~outbox[1].key
    BY <1>2, <1>4 DEF PageInv, LoadInv
  <2>7. Healing => Healing'
    BY <1>2, <1>4, <2>6 DEF Healing
  <2>8. GapInv'
    BY <1>4, <2>1, <2>7 DEF GapInv
  <2> QED
    BY <1>3, <2>2, <2>3, <2>5, <2>8 DEF PageInv
<1> QED
  BY <1>3, <1>4 DEF PageInv, Open

(* What the transport finds is told to the worker, if it changed.          *)
LEMMA Told ==
  ASSUME inbox \in Seq(Messages), NEW type \in Types,
         inbox' \in {inbox, Append(inbox, Message(type))}
  PROVE  /\ inbox' \in Seq(Messages)
         /\ \A n \in DOMAIN inbox : n \in DOMAIN inbox' /\ inbox'[n] = inbox[n]
         /\ \A n \in DOMAIN inbox' :
              (n \in DOMAIN inbox /\ inbox'[n] = inbox[n]) \/ inbox'[n].type = type
         /\ \A t \in Types : Has(inbox, t) => Has(inbox', t)
         /\ \A t \in Types \ {type} : Has(inbox', t) => Has(inbox, t)
         /\ inbox' # inbox => Has(inbox', type)
<1>1. CASE inbox' = inbox
  BY <1>1
<1>2. CASE inbox' = Append(inbox, Message(type))
  <2> DEFINE m == Message(type)
  <2>1. m \in Messages /\ m.type = type
    BY MessageShape
  <2> HIDE DEF m
  <2>2. inbox' = Append(inbox, m)
    BY <1>2 DEF m
  <2> QED
    BY <2>1, <2>2, Appended
<1> QED
  BY <1>1, <1>2

(* It hears a packet, and sends or drops it.                               *)
LEMMA HearsPacket ==
  ASSUME ShapeInv, PageInv, UNCHANGED <<page, worker>>, page.phase = "ready",
         outbox # <<>>, Head(outbox).type = "packet", outbox' = Tail(outbox),
         NEW type \in {"transport-pause", "transport-resume"},
         inbox' \in {inbox, Append(inbox, Message(type))},
         congested /\ ~congested' => inbox' # inbox /\ type = "transport-resume",
         wire'.quality = wire.quality, wire'.gap => congested' \/ (wire.gap /\ ~Head(outbox).key)
  PROVE  PageInv'
<1>1. outbox \in Seq(Messages) /\ inbox \in Seq(Messages)
  BY DEF ShapeInv
<1>2. /\ 1 \in DOMAIN outbox /\ outbox[1] = Head(outbox)
      /\ \A n \in DOMAIN outbox' : n \in Nat /\ n >= 1 /\ n + 1 \in DOMAIN outbox /\ outbox'[n] = outbox[n + 1]
      /\ \A n \in DOMAIN outbox : n = 1 \/ (n - 1 \in DOMAIN outbox' /\ outbox'[n - 1] = outbox[n])
      /\ \A s \in Types : Has(outbox', s) => Has(outbox, s)
      /\ \A s \in Types : Has(outbox, s) => Has(outbox', s) \/ Head(outbox).type = s
  BY <1>1, Taken
<1>3. /\ \A n \in DOMAIN inbox : n \in DOMAIN inbox' /\ inbox'[n] = inbox[n]
      /\ \A n \in DOMAIN inbox' :
           (n \in DOMAIN inbox /\ inbox'[n] = inbox[n]) \/ inbox'[n].type = type
      /\ \A t \in Types : Has(inbox, t) => Has(inbox', t)
      /\ \A t \in Types \ {type} : Has(inbox', t) => Has(inbox, t)
      /\ inbox' # inbox => Has(inbox', type)
  BY <1>1, Told DEF Types
<1>4. LoadInv'
  <2>1. worker.closed => Has(outbox', "error")
    BY <1>2 DEF PageInv, LoadInv, Open, Unloaded, Types
  <2>2. ~Has(inbox', "init") /\ ~Has(inbox', "close") /\ worker.doing # "init"
    BY <1>3 DEF PageInv, LoadInv, Open, Unloaded, Types
  <2>3. \A n \in DOMAIN inbox' : inbox'[n].type # "init"
    BY <2>2 DEF Has
  <2>4. \A n \in DOMAIN inbox' : inbox'[n].type = "source" => inbox'[n].source \in Sources
    BY <1>3 DEF PageInv, LoadInv
  <2>5. \A n \in DOMAIN outbox' : outbox'[n].key => outbox'[n].type = "packet"
    BY <1>2 DEF PageInv, LoadInv
  <2> QED
    BY <2>1, <2>2, <2>3, <2>4, <2>5 DEF LoadInv, Open, Unloaded
<1>5. ChangeInv /\ ResumeInv /\ QualityInv /\ GapInv
  BY DEF PageInv, Open
<1>6. Answered' => Answered
  BY <1>2 DEF Answered
<1>7. ChangeInv'
  <2>1. Asked' => Asked
    BY <1>3 DEF Asked, Types
  <2>2. \A m, n \in DOMAIN inbox' :
          inbox'[m].type = "reconfigure" /\ inbox'[n].type = "reconfigure" => m = n
    BY <1>3, <1>5 DEF ChangeInv
  <2>3. \A n \in DOMAIN inbox' : inbox'[n].type = "reconfigure" => inbox'[n].quality = page.quality
    BY <1>3, <1>5 DEF ChangeInv
  <2>4. \A m, n \in DOMAIN outbox' : outbox'[m].type \in Answers /\ outbox'[n].type \in Answers => m = n
    BY <1>2, <1>5 DEF ChangeInv
  <2> QED
    BY <1>5, <1>6, <2>1, <2>2, <2>3, <2>4 DEF ChangeInv, Changing
<1>8. ResumeInv'
  <2>1. Has(inbox', "resume") => Has(inbox, "resume")
    BY <1>3 DEF Types
  <2>2. \A m, n \in DOMAIN inbox' : inbox'[m].type = "reconfigure" /\ inbox'[n].type = "resume" => n < m
    BY <1>3, <1>5 DEF ResumeInv
  <2> QED
    BY <1>5, <1>6, <2>1, <2>2 DEF ResumeInv, Changing
<1>9. QualityInv'
  <2>1. Has(outbox, "reconfigured") <=> Has(outbox', "reconfigured")
    BY <1>2 DEF Types
  <2>2. \A n \in DOMAIN outbox' : outbox'[n].type = "packet" => outbox'[n].quality = wire.quality
    BY <1>2, <1>5 DEF QualityInv
  <2>3. \A m, n \in DOMAIN outbox' : outbox'[m].type = "packet" /\ outbox'[n].type = "reconfigured" => m < n
    BY <1>2, <1>5 DEF QualityInv
  <2> QED
    BY <1>5, <2>1, <2>2, <2>3 DEF QualityInv
<1>10. GapInv'
  <2>1. Healing /\ ~Head(outbox).key => Healing'
    BY <1>2 DEF Healing
  <2>2. /\ Has(inbox, "resume") => Has(inbox', "resume")
        /\ Has(inbox, "transport-resume") => Has(inbox', "transport-resume")
    BY <1>3 DEF Types
  <2>3. congested /\ ~congested' => Has(inbox', "transport-resume")
    BY <1>3
  <2> QED
    BY <1>5, <2>1, <2>2, <2>3 DEF GapInv
<1> QED
  BY <1>4, <1>7, <1>8, <1>9, <1>10 DEF PageInv

(* It hears that the quality is changed, tells the server and resumes the  *)
(* worker.                                                                 *)
LEMMA HearsChange ==
  ASSUME ShapeInv, PageInv, Sound(worker), UNCHANGED <<congested, worker>>,
         page.quality # None, page'.phase = page.phase, page'.quality = None,
         outbox # <<>>, Head(outbox).type = "reconfigured", outbox' = Tail(outbox),
         wire'.quality = page.quality, inbox' = Append(inbox, Message("resume"))
  PROVE  PageInv'
<1>1. outbox \in Seq(Messages) /\ inbox \in Seq(Messages)
  BY DEF ShapeInv
<1>2. /\ 1 \in DOMAIN outbox /\ outbox[1] = Head(outbox)
      /\ \A n \in DOMAIN outbox : n \in Nat /\ n >= 1
      /\ \A n \in DOMAIN outbox' : n \in Nat /\ n >= 1 /\ n + 1 \in DOMAIN outbox /\ outbox'[n] = outbox[n + 1]
      /\ \A s \in Types : Has(outbox, s) => Has(outbox', s) \/ Head(outbox).type = s
  BY <1>1, Taken
<1>3. /\ \A n \in DOMAIN inbox' :
           (n \in DOMAIN inbox /\ inbox'[n] = inbox[n]) \/ inbox'[n].type = "resume"
      /\ \A t \in Types \ {"resume"} : Has(inbox', t) => Has(inbox, t)
  BY <1>1, Told DEF Types
<1>4. Has(inbox', "resume")
  <2>1. Message("resume") \in Messages /\ Message("resume").type = "resume"
    BY MessageShape DEF Types
  <2> QED
    BY <1>1, <2>1, Appended DEF Types
<1>5. page.phase = "ready" /\ page'.phase = "ready"
  BY DEF PageInv, LoadInv
<1>6. ChangeInv /\ ResumeInv /\ QualityInv /\ GapInv
  BY <1>5 DEF PageInv, Open
<1>7. Has(outbox, "reconfigured") /\ Answered
  BY <1>2 DEF Has, Answered, Answers
<1>8. ~Asked /\ ~Changing /\ ~Asked'
  BY <1>3, <1>6, <1>7 DEF ChangeInv, Asked, Types
<1>9. \A n \in DOMAIN outbox' : outbox'[n].type \notin Answers \cup {"packet"}
  <2>1. \A n \in DOMAIN outbox : outbox[n].type \in Answers => n = 1
    BY <1>2, <1>6 DEF ChangeInv, Answers
  <2>2. \A n \in DOMAIN outbox : outbox[n].type # "packet"
    BY <1>2, <1>6 DEF QualityInv
  <2> QED
    BY <1>2, <2>1, <2>2
<1>10. LoadInv'
  <2>1. worker.closed => Has(outbox', "error")
    BY <1>2, <1>5 DEF PageInv, LoadInv, Open, Unloaded, Types
  <2>2. ~Has(inbox', "init") /\ ~Has(inbox', "close") /\ worker.doing # "init"
    BY <1>3, <1>5 DEF PageInv, LoadInv, Open, Unloaded, Types
  <2>3. \A n \in DOMAIN inbox' : inbox'[n].type # "init"
    BY <2>2 DEF Has
  <2>4. \A n \in DOMAIN inbox' : inbox'[n].type = "source" => inbox'[n].source \in Sources
    BY <1>3 DEF PageInv, LoadInv
  <2>5. \A n \in DOMAIN outbox' : outbox'[n].key => outbox'[n].type = "packet"
    BY <1>2 DEF PageInv, LoadInv
  <2> QED
    BY <1>5, <2>1, <2>2, <2>3, <2>4, <2>5 DEF LoadInv, Open, Unloaded
<1>11. ~Answered' /\ ~Changing'
  BY <1>8, <1>9 DEF Answered, Changing
<1>12. ChangeInv'
  BY <1>8, <1>9, <1>11 DEF ChangeInv, Changing, Asked, Has
<1>13. ResumeInv'
  BY <1>8, <1>11 DEF ResumeInv, Asked, Has
<1>14. QualityInv'
  <2>1. worker.config \in {None, page.quality}
    BY <1>6, <1>7 DEF QualityInv, Sound, Silent
  <2>2. ~Has(outbox', "reconfigured")
    BY <1>9 DEF Has, Answers
  <2> QED
    BY <1>9, <2>1, <2>2 DEF QualityInv
<1>15. GapInv'
  BY <1>4, <1>5 DEF GapInv
<1> QED
  BY <1>10, <1>12, <1>13, <1>14, <1>15 DEF PageInv

(* It hears that the change was given up.                                  *)
LEMMA HearsRefusal ==
  ASSUME ShapeInv, PageInv, UNCHANGED <<congested, wire, worker, inbox>>, page.phase = "ready",
         page'.phase = page.phase, page'.quality = None,
         outbox # <<>>, Head(outbox).type = "reconfigure-error", outbox' = Tail(outbox)
  PROVE  PageInv'
<1>1. outbox \in Seq(Messages)
  BY DEF ShapeInv
<1>2. /\ 1 \in DOMAIN outbox /\ outbox[1] = Head(outbox)
      /\ \A n \in DOMAIN outbox' : n \in Nat /\ n >= 1 /\ n + 1 \in DOMAIN outbox /\ outbox'[n] = outbox[n + 1]
      /\ \A n \in DOMAIN outbox : n = 1 \/ (n - 1 \in DOMAIN outbox' /\ outbox'[n - 1] = outbox[n])
      /\ \A s \in Types : Has(outbox', s) => Has(outbox, s)
      /\ \A s \in Types : Has(outbox, s) => Has(outbox', s) \/ Head(outbox).type = s
  BY <1>1, Taken
<1>3. LoadInv'
  BY <1>2 DEF PageInv, LoadInv, Open, Unloaded, Types
<1>4. ChangeInv /\ ResumeInv /\ QualityInv /\ GapInv
  BY DEF PageInv, Open
<1>5. Answered /\ ~Asked /\ ~Changing
  BY <1>2, <1>4 DEF ChangeInv, Answered, Answers
<1>6. \A n \in DOMAIN outbox' : outbox'[n].type \notin Answers
  BY <1>2, <1>4 DEF ChangeInv, Answers
<1>7. ~Has(outbox, "reconfigured") /\ ~Has(outbox', "reconfigured")
  <2>1. ~Has(outbox', "reconfigured")
    BY <1>6 DEF Has, Answers
  <2> QED
    BY <1>2, <2>1 DEF Types
<1>8. ~Asked' /\ ~Changing' /\ ~Answered'
  BY <1>5, <1>6 DEF Asked, Changing, Answered
<1>9. ChangeInv'
  BY <1>6, <1>8 DEF ChangeInv, Changing, Asked, Has
<1>10. ResumeInv'
  BY <1>4, <1>8 DEF ResumeInv
<1>11. QualityInv'
  BY <1>2, <1>4, <1>7 DEF QualityInv, Has
<1>12. ~outbox[1].key
  BY <1>2 DEF PageInv, LoadInv
<1>13. Healing => Healing'
  BY <1>2, <1>12 DEF Healing
<1>14. GapInv'
  BY <1>4, <1>13 DEF GapInv
<1> QED
  BY <1>3, <1>9, <1>10, <1>11, <1>14 DEF PageInv
-----------------------------------------------------------------------------
(* The steps, one after the other.  First what a step of the page, and one *)
(* of the worker, leaves to be shown.                                      *)

LEMMA PageStep ==
  ASSUME IInv, UNCHANGED <<worker, accepted>>,
         page' \in Pages, congested' \in BOOLEAN, wire' \in [quality : Qualities, gap : BOOLEAN],
         spent' \in [sources : 0 .. MaxSources, changes : Nat, polls : Nat],
         inbox' \in Seq(Messages), outbox' \in Seq(Messages), PageInv'
  PROVE  IInv'
BY DEF IInv, ShapeInv

LEMMA WorkerStep ==
  ASSUME IInv, UNCHANGED <<page, congested, wire, spent>>,
         inbox' \in Seq(Messages), outbox' \in Seq(Messages), worker' \in WorkerStates,
         accepted' \in Sources \cup {0}, WorkerInv(worker', accepted'), PageInv'
  PROVE  IInv'
BY DEF IInv, ShapeInv

LEMMA Worked ==
  ASSUME IInv, NEW v, Work(v, <<>>)
  PROVE  /\ worker' = v /\ UNCHANGED <<page, congested, wire, spent, outbox>>
         /\ outbox' \in Seq(Messages)
<1>1. outbox \in Seq(Messages)
  BY DEF IInv, ShapeInv
<1> QED
  BY <1>1, Nothing DEF Work

LEMMA Spoke ==
  ASSUME IInv, NEW v, NEW m \in Messages, Work(v, <<m>>)
  PROVE  /\ worker' = v /\ UNCHANGED <<page, congested, wire, spent>>
         /\ outbox' = Append(outbox, m) /\ outbox' \in Seq(Messages)
<1>1. outbox \in Seq(Messages)
  BY DEF IInv, ShapeInv
<1> QED
  BY <1>1, Appended DEF Work

LEMMA CallSourceStep ==
  ASSUME IInv, CallSource
  PROVE  IInv'
<1> DEFINE c == spent.sources + 1
           m == [Message("source") EXCEPT !.source = c]
<1>1. c \in Sources /\ c \in 0 .. MaxSources
  BY VideoAssumption DEF CallSource, IInv, ShapeInv, Sources
<1>2. m \in Messages /\ m.source = c /\ m.type = "source"
  BY <1>1, MessageShape DEF Types, Message
<1>3. /\ page.phase = "ready" /\ page' = [page EXCEPT !.source = c]
      /\ spent' = [spent EXCEPT !.sources = c]
      /\ inbox' = Append(inbox, m)
      /\ UNCHANGED <<congested, wire, outbox, worker, accepted>>
  BY DEF CallSource, Call, Ready
<1> HIDE DEF m, c
<1>4. /\ page' \in Pages /\ page'.phase = "ready" /\ page'.quality = page.quality
      /\ spent' \in [sources : 0 .. MaxSources, changes : Nat, polls : Nat]
  BY <1>1, <1>3 DEF IInv, ShapeInv, Pages
<1>5. inbox' \in Seq(Messages)
  BY <1>2, <1>3, Appended DEF IInv, ShapeInv
<1>6. PageInv'
  BY <1>1, <1>2, <1>3, <1>4, PageAsks DEF IInv, Asking
<1> QED
  BY <1>3, <1>4, <1>5, <1>6, PageStep DEF IInv, ShapeInv

LEMMA CallReconfigureStep ==
  ASSUME IInv, CallReconfigure
  PROVE  IInv'
<1>1. PICK q \in Qualities : /\ page' = [page EXCEPT !.quality = q]
                             /\ Call([Message("reconfigure") EXCEPT !.quality = q])
  BY DEF CallReconfigure
<1> DEFINE m == [Message("reconfigure") EXCEPT !.quality = q]
<1>2. m \in Messages /\ m.quality = q /\ m.type = "reconfigure"
  BY DEF Types, Message, Messages
<1>3. /\ page.phase = "ready" /\ page.quality = None
      /\ spent' = [spent EXCEPT !.changes = @ + 1]
      /\ inbox' = Append(inbox, m)
      /\ UNCHANGED <<congested, wire, outbox, worker, accepted>>
  BY <1>1 DEF CallReconfigure, Call, Ready
<1> HIDE DEF m
<1>4. /\ page' \in Pages /\ page'.phase = "ready" /\ page'.quality = q /\ q # None
      /\ spent' \in [sources : 0 .. MaxSources, changes : Nat, polls : Nat]
  <2>1. page' \in Pages /\ page'.phase = "ready" /\ page'.quality = q
    BY <1>1, <1>3 DEF IInv, ShapeInv, Pages
  <2>2. q # None
    BY VideoAssumption
  <2>3. spent' \in [sources : 0 .. MaxSources, changes : Nat, polls : Nat]
    BY <1>3 DEF IInv, ShapeInv
  <2> QED
    BY <2>1, <2>2, <2>3
<1>5. inbox' \in Seq(Messages)
  BY <1>2, <1>3, Appended DEF IInv, ShapeInv
<1>6. PageInv'
  BY <1>2, <1>3, <1>4, PageAsksChange DEF IInv
<1> QED
  BY <1>3, <1>4, <1>5, <1>6, PageStep DEF IInv, ShapeInv

LEMMA CallPlaceholderStep ==
  ASSUME IInv, CallPlaceholder
  PROVE  IInv'
<1> DEFINE m == Message("placeholder")
<1>1. m \in Messages /\ m.type = "placeholder"
  BY MessageShape DEF Types
<1>2. /\ page.phase = "ready" /\ inbox' = Append(inbox, m)
      /\ UNCHANGED <<page, congested, wire, spent, outbox, worker, accepted>>
  BY DEF CallPlaceholder, Call, Ready
<1> HIDE DEF m
<1>3. inbox' \in Seq(Messages)
  BY <1>1, <1>2, Appended DEF IInv, ShapeInv
<1>4. PageInv'
  BY <1>1, <1>2, PageAsks DEF IInv, Asking
<1> QED
  BY <1>2, <1>3, <1>4, PageStep DEF IInv, ShapeInv

LEMMA Rejected ==
  ASSUME NEW phase \in {"closing", "terminated"}, Reject(phase)
  PROVE  page' \in Pages /\ page'.phase = phase /\ page'.source = 0 /\ page'.quality = None
BY DEF Reject, Pages

LEMMA CallCloseStep ==
  ASSUME IInv, CallClose
  PROVE  IInv'
<1> DEFINE m == Message("close")
<1>1. m \in Messages /\ m.type = "close"
  BY MessageShape DEF Types
<1>2. /\ inbox' = Append(inbox, m)
      /\ UNCHANGED <<congested, wire, spent, outbox, worker, accepted>>
      /\ page' \in Pages /\ page'.phase = "closing" /\ page'.source = 0 /\ page'.quality = None
  BY Rejected DEF CallClose, Call
<1> HIDE DEF m
<1>3. /\ inbox' \in Seq(Messages) /\ inbox'[Len(inbox) + 1] = m
      /\ \A n \in DOMAIN inbox : n \in DOMAIN inbox' /\ inbox'[n] = inbox[n]
      /\ \A n \in DOMAIN inbox' : n \in DOMAIN inbox \/ n = Len(inbox) + 1
  BY <1>1, <1>2, Appended DEF IInv, ShapeInv
<1>4. LoadInv
  BY DEF IInv, PageInv
<1>5. /\ \A n \in DOMAIN inbox' : inbox'[n].type = "init" => n = 1 /\ worker.closed /\ worker.doing = "idle"
      /\ \A n \in DOMAIN inbox' : inbox'[n].type = "source" => inbox'[n].source \in Sources
      /\ \A n \in DOMAIN outbox' : outbox'[n].key => outbox'[n].type = "packet"
  BY <1>1, <1>2, <1>3, <1>4 DEF LoadInv
<1>6. PageInv'
  BY <1>2, <1>4, <1>5, LetGo DEF IInv
<1> QED
  BY <1>2, <1>3, <1>6, PageStep DEF IInv, ShapeInv

LEMMA PolledShape ==
  ASSUME ShapeInv, NEW now \in Findings, Polled(now),
         NEW type, type = IF now THEN "transport-pause" ELSE "transport-resume"
  PROVE  /\ congested' = now /\ congested' \in BOOLEAN
         /\ spent' \in [sources : 0 .. MaxSources, changes : Nat, polls : Nat]
         /\ inbox' \in {inbox, Append(inbox, Message(type))} /\ inbox' \in Seq(Messages)
         /\ page.phase # "ready" => inbox' = inbox
         /\ page.phase = "ready" /\ now # congested => inbox' = Append(inbox, Message(type))
<1>1. now \in BOOLEAN
  BY DEF Findings, ShapeInv
<1>2. congested' = now
  BY DEF Polled
<1>3. spent' \in [sources : 0 .. MaxSources, changes : Nat, polls : Nat]
  BY DEF Polled, ShapeInv
<1>4. type \in {"transport-pause", "transport-resume"}
  OBVIOUS
<1>5. /\ inbox' \in {inbox, Append(inbox, Message(type))}
      /\ page.phase # "ready" => inbox' = inbox
      /\ page.phase = "ready" /\ now # congested => inbox' = Append(inbox, Message(type))
  BY DEF Polled
<1>6. inbox' \in Seq(Messages)
  BY <1>4, <1>5, Told DEF ShapeInv, Types
<1> QED
  BY <1>1, <1>2, <1>3, <1>5, <1>6

LEMMA PollStep ==
  ASSUME IInv, Poll
  PROVE  IInv'
<1>1. PICK now \in Findings : now # congested /\ Polled(now)
  BY DEF Poll
<1> DEFINE type == IF now THEN "transport-pause" ELSE "transport-resume"
<1>2. /\ congested' = now /\ congested' \in BOOLEAN
      /\ spent' \in [sources : 0 .. MaxSources, changes : Nat, polls : Nat]
      /\ inbox' \in Seq(Messages)
      /\ page.phase # "ready" => inbox' = inbox
      /\ page.phase = "ready" => inbox' = Append(inbox, Message(type))
  BY <1>1, PolledShape DEF IInv
<1>3. UNCHANGED <<page, wire, outbox, worker, accepted>>
  BY DEF Poll
<1>4. ShapeInv /\ PageInv
  BY DEF IInv
<1>5. CASE page.phase = "ready"
  <2>1. type \in Asking /\ (type # "transport-resume" => congested') /\ type # "source" /\ type \in Types
    BY <1>2 DEF Asking, Types
  <2> HIDE DEF type
  <2>2. Message(type) \in Messages /\ Message(type).type = type
    BY <2>1, MessageShape
  <2>3. PageInv'
    BY <1>2, <1>3, <1>4, <1>5, <2>1, <2>2, PageAsks
  <2> QED
    BY <1>2, <1>3, <1>4, <2>3, PageStep DEF ShapeInv
<1>6. CASE page.phase # "ready"
  <2>1. LoadInv'
    BY <1>2, <1>3, <1>4, <1>6 DEF PageInv, LoadInv, Open, Unloaded
  <2>2. ASSUME Open PROVE PageInv'
    <3>1. ChangeInv /\ ResumeInv /\ QualityInv /\ GapInv
      BY <1>4, <2>2 DEF PageInv
    <3>2. ChangeInv' /\ ResumeInv'
      BY <1>2, <1>3, <1>6, <3>1 DEF ChangeInv, ResumeInv, Asked, Changing, Answered
    <3>3. QualityInv'
      BY <1>3, <3>1 DEF QualityInv
    <3>4. GapInv'
      BY <1>3, <1>6, <3>1 DEF GapInv, Healing
    <3> QED
      BY <2>1, <3>2, <3>3, <3>4 DEF PageInv
  <2>3. PageInv'
    BY <1>3, <2>1, <2>2 DEF PageInv, Open
  <2> QED
    BY <1>2, <1>3, <1>4, <2>3, PageStep DEF ShapeInv
<1> QED
  BY <1>5, <1>6

(* The page terminates its worker.                                         *)
LEMMA Terminated ==
  ASSUME IInv, Terminate, UNCHANGED <<congested, wire, spent, accepted>>
  PROVE  IInv'
<1>1. /\ page' \in Pages /\ page'.phase = "terminated" /\ page'.source = 0 /\ page'.quality = None
      /\ worker' = Loaded /\ inbox' = <<>> /\ outbox' = <<>>
  BY Rejected DEF Terminate
<1>2. Loaded \in WorkerStates /\ WorkerInv(Loaded, accepted)
  BY LoadedShape DEF IInv, ShapeInv
<1>3. PageInv'
  BY <1>1, LetGo, Nothing DEF IInv, PageInv
<1>4. ShapeInv'
  BY <1>1, <1>2, Nothing DEF IInv, ShapeInv
<1> QED
  BY <1>1, <1>2, <1>3, <1>4 DEF IInv

LEMMA Received ==
  ASSUME IInv, NEW type, Receive(type), Take
  PROVE  /\ outbox # <<>> /\ Head(outbox).type = type /\ outbox' = Tail(outbox)
         /\ outbox' \in Seq(Messages) /\ UNCHANGED <<worker, accepted>>
         /\ type \notin {"ready", "error"} => page.phase # "starting"
<1>1. outbox # <<>> /\ Head(outbox).type = type /\ outbox' = Tail(outbox) /\ UNCHANGED <<worker, accepted>>
  BY DEF Receive, Take
<1>2. outbox' \in Seq(Messages)
  BY <1>1, Taken DEF IInv, ShapeInv
<1>3. type \notin {"ready", "error"} => page.phase # "starting"
  BY <1>1 DEF IInv, PageInv, LoadInv
<1> QED
  BY <1>1, <1>2, <1>3

LEMMA ReceiveReadyStep ==
  ASSUME IInv, ReceiveReady
  PROVE  IInv'
<1>1. /\ outbox # <<>> /\ Head(outbox).type = "ready" /\ outbox' = Tail(outbox)
      /\ outbox' \in Seq(Messages) /\ UNCHANGED <<worker, accepted, congested, wire, spent>>
  BY Received DEF ReceiveReady
<1>2. ShapeInv /\ PageInv
  BY DEF IInv
<1>3. CASE page.phase = "starting"
  <2>1. /\ page' = [page EXCEPT !.phase = "ready"]
        /\ inbox' \in {inbox, Append(inbox, Message("transport-pause"))}
    BY <1>3 DEF ReceiveReady, Call
  <2>2. page' \in Pages /\ page'.phase = "ready" /\ page'.quality = page.quality
    BY <1>2, <2>1 DEF ShapeInv, Pages
  <2>3. inbox' \in Seq(Messages)
    BY <1>2, <2>1, Told DEF ShapeInv, Types
  <2>4. PageInv'
    BY <1>1, <1>2, <1>3, <2>1, <2>2, HearsReady
  <2> QED
    BY <1>1, <1>2, <2>2, <2>3, <2>4, PageStep DEF ShapeInv
<1>4. CASE page.phase # "starting"
  <2>1. UNCHANGED <<page, inbox>>
    BY <1>4 DEF ReceiveReady
  <2>2. PageInv'
    BY <1>1, <1>2, <1>4, <2>1, HearsLittle DEF Answers
  <2> QED
    BY <1>1, <1>2, <2>1, <2>2, PageStep DEF ShapeInv
<1> QED
  BY <1>3, <1>4

LEMMA ReceiveSourceReadyStep ==
  ASSUME IInv, ReceiveSourceReady
  PROVE  IInv'
<1>1. /\ outbox # <<>> /\ Head(outbox).type = "source-ready" /\ outbox' = Tail(outbox)
      /\ outbox' \in Seq(Messages) /\ page.phase # "starting"
      /\ UNCHANGED <<worker, accepted, congested, wire, spent, inbox>>
  BY Received DEF ReceiveSourceReady
<1>2. ShapeInv /\ PageInv
  BY DEF IInv
<1>3. page' \in Pages /\ page'.phase = page.phase /\ page'.quality = page.quality /\ page'.source = 0
  BY <1>2 DEF ReceiveSourceReady, ShapeInv, Pages
<1>4. PageInv'
  BY <1>1, <1>2, <1>3, HearsLittle DEF Answers
<1> QED
  BY <1>1, <1>2, <1>3, <1>4, PageStep DEF ShapeInv

LEMMA ReceivePacketStep ==
  ASSUME IInv, ReceivePacket
  PROVE  IInv'
<1>1. /\ outbox # <<>> /\ Head(outbox).type = "packet" /\ outbox' = Tail(outbox)
      /\ outbox' \in Seq(Messages) /\ page.phase # "starting"
      /\ UNCHANGED <<worker, accepted, page>>
  BY Received DEF ReceivePacket
<1>2. ShapeInv /\ PageInv
  BY DEF IInv
<1>3. CASE page.phase = "ready"
  <2>1. PICK now \in Findings :
          Polled(now) /\ wire' = [wire EXCEPT !.gap = now \/ (@ /\ ~Head(outbox).key)]
    BY <1>3 DEF ReceivePacket
  <2> DEFINE type == IF now THEN "transport-pause" ELSE "transport-resume"
             gap == now \/ (wire.gap /\ ~Head(outbox).key)
  <2>2. /\ congested' = now /\ congested' \in BOOLEAN
        /\ spent' \in [sources : 0 .. MaxSources, changes : Nat, polls : Nat]
        /\ inbox' \in {inbox, Append(inbox, Message(type))} /\ inbox' \in Seq(Messages)
        /\ now # congested => inbox' = Append(inbox, Message(type))
    BY <1>2, <1>3, <2>1, PolledShape
  <2>3. wire' = [wire EXCEPT !.gap = gap] /\ gap \in BOOLEAN
    BY <2>1, <2>2
  <2>4. gap => congested' \/ (wire.gap /\ ~Head(outbox).key)
    BY <2>2
  <2>5. type \in {"transport-pause", "transport-resume"} /\ (~congested' => type = "transport-resume")
    BY <2>2
  <2> HIDE DEF gap, type
  <2>6. /\ wire' \in [quality : Qualities, gap : BOOLEAN] /\ wire'.quality = wire.quality
        /\ wire'.gap = gap
    BY <1>2, <2>3 DEF ShapeInv
  <2>7. congested /\ ~congested' => inbox' # inbox
    <3>1. congested /\ ~congested' => inbox' = Append(inbox, Message(type))
      BY <2>2
    <3>2. Message(type) \in Messages /\ inbox \in Seq(Messages)
      BY <1>2, <2>5, MessageShape DEF Types, ShapeInv
    <3>3. Append(inbox, Message(type)) # inbox
      BY <3>2
    <3> QED
      BY <3>1, <3>3
  <2>8. PageInv'
    BY <1>1, <1>2, <1>3, <2>2, <2>4, <2>5, <2>6, <2>7, HearsPacket
  <2> QED
    BY <1>1, <1>2, <2>2, <2>6, <2>8, PageStep DEF ShapeInv
<1>4. CASE page.phase # "ready"
  <2>1. UNCHANGED <<congested, spent, inbox, wire>>
    BY <1>4 DEF ReceivePacket
  <2>2. PageInv'
    BY <1>1, <1>2, <1>4, <2>1, HearsLittle DEF Open
  <2> QED
    BY <1>1, <1>2, <2>1, <2>2, PageStep DEF ShapeInv
<1> QED
  BY <1>3, <1>4

LEMMA ReceiveReconfiguredStep ==
  ASSUME IInv, ReceiveReconfigured
  PROVE  IInv'
<1>1. ShapeInv /\ PageInv /\ UNCHANGED <<congested, spent>> /\ Receive("reconfigured")
  BY DEF IInv, ReceiveReconfigured
<1>2. CASE page.quality = None /\ Take /\ UNCHANGED <<page, inbox, wire>>
  <2>1. /\ outbox # <<>> /\ Head(outbox).type = "reconfigured" /\ outbox' = Tail(outbox)
        /\ outbox' \in Seq(Messages) /\ page.phase # "starting" /\ UNCHANGED <<worker, accepted>>
    BY <1>1, <1>2, Received
  <2>2. ~Open
    <3>1. Answered
      <4>1. 1 \in DOMAIN outbox /\ outbox[1] = Head(outbox)
        BY <1>1, <2>1, Taken DEF ShapeInv
      <4> QED
        BY <2>1, <4>1 DEF Answered, Answers
    <3> QED
      BY <1>1, <1>2, <3>1 DEF PageInv, ChangeInv
  <2>3. PageInv'
    BY <1>1, <1>2, <2>1, <2>2, HearsLittle
  <2> QED
    BY <1>1, <1>2, <2>1, <2>3, PageStep DEF ShapeInv
<1>3. CASE /\ page.quality # None
           /\ wire' = [quality |-> page.quality, gap |-> TRUE]
           /\ Call(Message("resume"))
           /\ page' = [page EXCEPT !.quality = None]
           /\ Take
  <2>1. /\ outbox # <<>> /\ Head(outbox).type = "reconfigured" /\ outbox' = Tail(outbox)
        /\ outbox' \in Seq(Messages) /\ UNCHANGED <<worker, accepted>>
    BY <1>1, <1>3, Received
  <2>2. inbox' = Append(inbox, Message("resume")) /\ inbox' \in Seq(Messages)
    BY <1>1, <1>3, Told DEF Call, ShapeInv, Types
  <2>3. /\ page' \in Pages /\ page'.phase = page.phase /\ page'.quality = None
        /\ wire' \in [quality : Qualities, gap : BOOLEAN] /\ wire'.quality = page.quality
    BY <1>1, <1>3 DEF ShapeInv, Pages
  <2>4. Sound(worker)
    BY DEF IInv, WorkerInv, Resting
  <2>5. PageInv'
    BY <1>1, <1>3, <2>1, <2>2, <2>3, <2>4, HearsChange
  <2> QED
    BY <1>1, <2>1, <2>2, <2>3, <2>5, PageStep DEF ShapeInv
<1>4. CASE Terminate /\ UNCHANGED wire
  BY <1>1, <1>4, Terminated DEF Receive
<1> QED
  BY <1>2, <1>3, <1>4 DEF ReceiveReconfigured

LEMMA ReceiveReconfigureErrorStep ==
  ASSUME IInv, ReceiveReconfigureError
  PROVE  IInv'
<1>1. /\ outbox # <<>> /\ Head(outbox).type = "reconfigure-error" /\ outbox' = Tail(outbox)
      /\ outbox' \in Seq(Messages) /\ page.phase # "starting"
      /\ UNCHANGED <<worker, accepted, congested, wire, spent, inbox>>
  BY Received DEF ReceiveReconfigureError
<1>2. ShapeInv /\ PageInv
  BY DEF IInv
<1>3. page' \in Pages /\ page'.phase = page.phase /\ page'.quality = None /\ page'.source = page.source
  BY <1>2 DEF ReceiveReconfigureError, ShapeInv, Pages
<1>4. PageInv'
  <2>1. CASE page.phase = "ready"
    BY <1>1, <1>2, <1>3, <2>1, HearsRefusal
  <2>2. CASE ~Open
    BY <1>1, <1>2, <1>3, <2>2, HearsLittle
  <2> QED
    BY <1>1, <2>1, <2>2 DEF Open
<1> QED
  BY <1>1, <1>2, <1>3, <1>4, PageStep DEF ShapeInv

LEMMA ReceiveErrorStep ==
  ASSUME IInv, ReceiveError
  PROVE  IInv'
<1>1. CASE page.phase = "closing"
  <2>1. /\ outbox # <<>> /\ outbox' = Tail(outbox) /\ outbox' \in Seq(Messages)
        /\ UNCHANGED <<worker, accepted, congested, wire, spent, inbox, page>>
    BY <1>1, Received DEF ReceiveError
  <2>2. ShapeInv /\ PageInv /\ ~Open
    BY <1>1 DEF IInv, Open
  <2>3. PageInv'
    BY <1>1, <2>1, <2>2, HearsLittle
  <2> QED
    BY <2>1, <2>2, <2>3, PageStep DEF ShapeInv
<1>2. CASE page.phase # "closing"
  BY <1>2, Terminated DEF ReceiveError, Receive
<1> QED
  BY <1>1, <1>2

LEMMA DeliverStep ==
  ASSUME IInv, Deliver
  PROVE  IInv'
<1>1. CASE ReceiveClosed
  BY <1>1, Terminated DEF ReceiveClosed, Receive
<1> QED
  BY <1>1, ReceiveReadyStep, ReceiveSourceReadyStep, ReceivePacketStep, ReceiveReconfiguredStep,
     ReceiveReconfigureErrorStep, ReceiveErrorStep DEF Deliver
-----------------------------------------------------------------------------
(* The worker obeys.                                                       *)

LEMMA Read ==
  ASSUME IInv, NEW type, Obey(type)
  PROVE  /\ inbox # <<>> /\ Head(inbox) \in Messages /\ Head(inbox).type = type
         /\ inbox[1] = Head(inbox) /\ 1 \in DOMAIN inbox
         /\ inbox' = Tail(inbox) /\ inbox' \in Seq(Messages) /\ worker.doing = "idle"
         /\ type \in {"init", "close"} \/ ~worker.closed
<1>1. inbox \in Seq(Messages)
  BY DEF IInv, ShapeInv
<1> QED
  BY <1>1, Taken DEF Obey

LEMMA Parts ==
  ASSUME IInv
  PROVE  /\ ShapeInv /\ PageInv /\ WorkerInv(worker, accepted) /\ worker \in WorkerStates
         /\ Sound(worker) /\ accepted \in Sources \cup {0}
         /\ inbox \in Seq(Messages) /\ outbox \in Seq(Messages)
BY DEF IInv, ShapeInv, WorkerInv, Resting

LEMMA HandleInitStep ==
  ASSUME IInv, HandleInit
  PROVE  IInv'
<1> DEFINE v == Begin([worker EXCEPT !.closed = FALSE], "init")
<1>1. /\ inbox # <<>> /\ Head(inbox) \in Messages /\ Head(inbox).type = "init"
      /\ inbox[1] = Head(inbox) /\ 1 \in DOMAIN inbox
      /\ inbox' = Tail(inbox) /\ inbox' \in Seq(Messages) /\ worker.doing = "idle"
  BY Read DEF HandleInit
<1>2. worker.closed
  BY <1>1, Parts DEF PageInv, LoadInv
<1>3. /\ v \in WorkerStates /\ WorkerInv(v, accepted) /\ v.force = worker.force /\ ~v.closed
      /\ v.paused = worker.paused /\ v.config = None /\ v.queue = <<>> /\ v.doing = "init"
  BY <1>1, <1>2, Parts, LoadingBegins
<1>4. Work(v, <<>>) /\ accepted' = accepted
  BY DEF HandleInit
<1>5. worker.config = None /\ worker.queue = <<>>
  BY <1>2, Parts DEF Sound, Silent
<1> HIDE DEF v
<1>6. worker' = v /\ UNCHANGED <<page, congested, wire, spent, outbox>> /\ outbox' \in Seq(Messages)
  BY <1>4, Worked
<1>7. PageInv'
  BY <1>1, <1>3, <1>5, <1>6, Parts, Loads
<1> QED
  BY <1>1, <1>3, <1>4, <1>6, <1>7, Parts, WorkerStep

LEMMA FinishInitStep ==
  ASSUME IInv, FinishInit
  PROVE  IInv'
<1>1. worker.doing = "init" /\ UNCHANGED <<inbox, accepted>>
  BY DEF FinishInit
<1>2. worker.queue = <<>>
  BY <1>1, Parts DEF Sound, Silent
<1>3. /\ Message("ready") \in Messages /\ Message("error") \in Messages
  BY MessageShape DEF Types
<1>4. CASE Work(Started(Idle([worker EXCEPT !.config = First, !.clock = "fresh"])), <<Message("ready")>>)
  <2> DEFINE v == Started(Idle([worker EXCEPT !.config = First, !.clock = "fresh"]))
  <2>1. /\ v \in WorkerStates /\ WorkerInv(v, accepted) /\ v.force = worker.force /\ ~v.closed
        /\ v.paused = worker.paused /\ v.config = First /\ v.queue = <<>> /\ v.doing = "idle"
    BY <1>1, Parts, LoadingEnds
  <2>2. Work(v, <<Message("ready")>>)
    BY <1>4
  <2> HIDE DEF v
  <2>3. /\ worker' = v /\ UNCHANGED <<page, congested, wire, spent>>
        /\ outbox' = Append(outbox, Message("ready")) /\ outbox' \in Seq(Messages)
    BY <1>3, <2>2, Spoke
  <2>4. PageInv'
    BY <1>1, <1>2, <2>1, <2>3, Parts, LoadIsDone
  <2> QED
    BY <1>1, <2>1, <2>3, <2>4, Parts, WorkerStep
<1>5. CASE Fail(Idle(worker))
  <2> DEFINE v == Closed(Idle(worker))
  <2>1. /\ v \in WorkerStates /\ WorkerInv(v, accepted) /\ v.force /\ v.closed
        /\ v.config = None /\ v.queue = <<>> /\ v.doing = "idle"
    BY <1>1, Parts, LoadingEnds
  <2>2. Work(v, <<Message("error")>>)
    BY <1>5 DEF Fail
  <2> HIDE DEF v
  <2>3. /\ worker' = v /\ UNCHANGED <<page, congested, wire, spent>>
        /\ outbox' = Append(outbox, Message("error")) /\ outbox' \in Seq(Messages)
    BY <1>3, <2>2, Spoke
  <2>4. PageInv'
    BY <1>1, <1>2, <2>1, <2>3, Parts, LoadIsDone
  <2> QED
    BY <1>1, <2>1, <2>3, <2>4, Parts, WorkerStep
<1> QED
  BY <1>4, <1>5 DEF FinishInit

(* The reader of the source shown is stopped before the next step.         *)
LEMMA SourceStops ==
  ASSUME IInv, NEW type \in {"source", "placeholder"}, Obey(type),
         Work(Begin(Stopped(worker), type), <<>>), UNCHANGED accepted
  PROVE  IInv'
<1> DEFINE v == Begin(Stopped(worker), type)
<1>1. /\ inbox # <<>> /\ Head(inbox) \in Messages /\ Head(inbox).type = type
      /\ inbox[1] = Head(inbox) /\ 1 \in DOMAIN inbox
      /\ inbox' = Tail(inbox) /\ inbox' \in Seq(Messages) /\ worker.doing = "idle"
  BY Read
<1>2. type = "source" => Head(inbox).source \in Sources
  BY <1>1, Parts DEF PageInv, LoadInv
<1>3. /\ Stopped(worker) \in WorkerStates /\ WorkerInv(Stopped(worker), accepted)
      /\ Alike(Stopped(worker), worker) /\ Stopped(worker).force = worker.force
      /\ Stopped(worker).reader = 0
  BY Parts, StoppedMoves
<1>4. /\ v \in WorkerStates /\ WorkerInv(v, accepted) /\ v.closed = worker.closed
      /\ v.paused = worker.paused /\ v.config = worker.config /\ v.queue = worker.queue
      /\ v.force = worker.force /\ v.doing = type
  BY <1>1, <1>2, <1>3, Parts, BeginMoves DEF Alike, Steps
<1> HIDE DEF v
<1>5. worker' = v /\ UNCHANGED <<page, congested, wire, spent, outbox>> /\ outbox' \in Seq(Messages)
  BY Worked DEF v
<1>6. PageInv'
  BY <1>1, <1>4, <1>5, Parts, Obeyed
<1> QED
  BY <1>1, <1>4, <1>5, <1>6, Parts, WorkerStep

LEMMA FinishSourceStep ==
  ASSUME IInv, FinishSource
  PROVE  IInv'
<1> DEFINE c == worker.call.source
           u == Idle(IF worker.placeholder THEN worker ELSE Held(worker))
           v == IF u.closed THEN u ELSE [u EXCEPT !.reader = c, !.loops = @ \cup {c}]
<1>1. worker.doing = "source" /\ c \in Sources
  BY Parts DEF FinishSource, Sound, Sized
<1>2. /\ v \in WorkerStates /\ WorkerInv(v, c)
      /\ v.closed = worker.closed /\ v.paused = worker.paused /\ v.config = worker.config
      /\ v.queue = worker.queue /\ v.doing = "idle" /\ (worker.force => v.force)
  BY <1>1, Parts, SourceTaken
<1>3. Work(v, <<Message("source-ready")>>) /\ accepted' = c /\ UNCHANGED inbox
  BY DEF FinishSource
<1>4. Message("source-ready") \in Messages
  BY MessageShape DEF Types
<1> HIDE DEF v, u, c
<1>5. /\ worker' = v /\ UNCHANGED <<page, congested, wire, spent>>
      /\ outbox' = Append(outbox, Message("source-ready")) /\ outbox' \in Seq(Messages)
  BY <1>3, <1>4, Spoke
<1>6. PageInv'
  BY <1>1, <1>2, <1>3, <1>5, Parts, SaysReady
<1> QED
  BY <1>1, <1>2, <1>3, <1>5, <1>6, Parts, WorkerStep

LEMMA HandlePlaceholderStep ==
  ASSUME IInv, HandlePlaceholder
  PROVE  IInv'
<1>1. CASE worker.placeholder /\ worker.reader = 0
  <2>1. Work(worker, <<>>) /\ accepted' = 0 /\ Obey("placeholder")
    BY <1>1 DEF HandlePlaceholder
  <2>2. /\ inbox # <<>> /\ Head(inbox) \in Messages /\ Head(inbox).type = "placeholder"
        /\ inbox' = Tail(inbox) /\ inbox' \in Seq(Messages) /\ worker.doing = "idle"
    BY <2>1, Read
  <2>3. worker' = worker /\ UNCHANGED <<page, congested, wire, spent, outbox>> /\ outbox' \in Seq(Messages)
    BY <2>1, Worked
  <2>4. WorkerInv(worker, 0)
    BY <1>1, <2>2, Parts, Nothing DEF WorkerInv, Resting, ShowsOnly
  <2>5. PageInv'
    BY <2>2, <2>3, Parts, Obeyed
  <2> QED
    BY <2>1, <2>2, <2>3, <2>4, <2>5, Parts, WorkerStep
<1>2. CASE ~(worker.placeholder /\ worker.reader = 0)
  <2>1. Work(Begin(Stopped(worker), "placeholder"), <<>>) /\ UNCHANGED accepted /\ Obey("placeholder")
    BY <1>2 DEF HandlePlaceholder
  <2> QED
    BY <2>1, SourceStops
<1> QED
  BY <1>1, <1>2

LEMMA FinishPlaceholderStep ==
  ASSUME IInv, FinishPlaceholder
  PROVE  IInv'
<1> DEFINE v == Held(Idle(worker))
<1>1. worker.doing = "placeholder" /\ Work(v, <<>>) /\ accepted' = 0 /\ UNCHANGED inbox
  BY DEF FinishPlaceholder
<1>2. /\ v \in WorkerStates /\ WorkerInv(v, 0)
      /\ v.closed = worker.closed /\ v.paused = worker.paused /\ v.config = worker.config
      /\ v.queue = worker.queue /\ v.doing = "idle" /\ v.force
  BY <1>1, Parts, PlaceholderTaken
<1> HIDE DEF v
<1>3. worker' = v /\ UNCHANGED <<page, congested, wire, spent, outbox>> /\ outbox' \in Seq(Messages)
  BY <1>1, Worked
<1>4. PageInv'
  <2>1. LoadInv'
    BY <1>1, <1>2, <1>3, Parts DEF PageInv, LoadInv, Open, Unloaded, Has
  <2>2. ASSUME Open PROVE PageInv'
    <3>1. ChangeInv /\ ResumeInv /\ QualityInv /\ GapInv
      BY <2>2, Parts DEF PageInv
    <3>2. ChangeInv' /\ ResumeInv'
      BY <1>1, <1>2, <1>3, <3>1 DEF ChangeInv, ResumeInv, Asked, Changing, Answered
    <3>3. QualityInv'
      BY <1>2, <1>3, <3>1 DEF QualityInv
    <3>4. GapInv'
      BY <1>2, <1>3 DEF GapInv, Healing
    <3> QED
      BY <2>1, <3>2, <3>3, <3>4 DEF PageInv
  <2> QED
    BY <1>3, <2>1, <2>2 DEF PageInv, Open
<1> QED
  BY <1>1, <1>2, <1>3, <1>4, Parts, WorkerStep

LEMMA HandleReconfigureStep ==
  ASSUME IInv, HandleReconfigure
  PROVE  IInv'
<1> DEFINE v == Begin(worker, "support")
<1>1. /\ inbox # <<>> /\ Head(inbox) \in Messages /\ Head(inbox).type = "reconfigure"
      /\ inbox' = Tail(inbox) /\ inbox' \in Seq(Messages) /\ worker.doing = "idle" /\ ~worker.closed
  BY Read DEF HandleReconfigure
<1>2. /\ v \in WorkerStates /\ WorkerInv(v, accepted)
      /\ v.closed = worker.closed /\ v.paused = worker.paused /\ v.config = worker.config
      /\ v.queue = worker.queue /\ v.force = worker.force
      /\ v.doing = "support" /\ v.call = Head(inbox)
  BY <1>1, Parts, BeginMoves DEF Steps
<1>3. Work(v, <<>>) /\ UNCHANGED accepted
  BY DEF HandleReconfigure
<1> HIDE DEF v
<1>4. worker' = v /\ UNCHANGED <<page, congested, wire, spent, outbox>> /\ outbox' \in Seq(Messages)
  BY <1>3, Worked
<1>5. PageInv'
  BY <1>1, <1>2, <1>4, Parts, ChangeBegins
<1> QED
  BY <1>1, <1>2, <1>3, <1>4, <1>5, Parts, WorkerStep

LEMMA GiveUpStep ==
  ASSUME IInv, Changing, GiveUpReconfigure, UNCHANGED <<inbox, accepted>>
  PROVE  IInv'
<1> DEFINE v == Started(Idle([worker EXCEPT !.paused = FALSE]))
<1>1. /\ v \in WorkerStates /\ WorkerInv(v, accepted) /\ v.force = worker.force
      /\ v.closed = worker.closed /\ v.config = worker.config /\ v.queue = worker.queue
      /\ v.doing = "idle"
  BY Parts, NotReconfigured DEF Changing
<1>2. Work(v, <<Message("reconfigure-error")>>)
  BY DEF GiveUpReconfigure
<1>3. Message("reconfigure-error") \in Messages
  BY MessageShape DEF Types
<1> HIDE DEF v
<1>4. /\ worker' = v /\ UNCHANGED <<page, congested, wire, spent>>
      /\ outbox' = Append(outbox, Message("reconfigure-error")) /\ outbox' \in Seq(Messages)
  BY <1>2, <1>3, Spoke
<1>5. "reconfigure-error" \in Answers
  BY DEF Answers
<1>6. PageInv'
  BY <1>1, <1>4, <1>5, Parts, ChangeAnswered
<1> QED
  BY <1>1, <1>4, <1>6, Parts, WorkerStep

(* The worker is closed, but its flush succeeds.                           *)
LEMMA LateStep ==
  ASSUME IInv, worker.doing = "flush", worker.closed,
         Work(Idle(worker), <<Message("reconfigured")>>), UNCHANGED <<inbox, accepted>>
  PROVE  IInv'
<1> DEFINE v == Idle(worker)
<1>0. /\ worker \in WorkerStates /\ Sound(worker) /\ ShowsOnly(worker, accepted)
      /\ Paced(worker) /\ worker.reader \in worker.loops \cup {0}
  BY Parts DEF WorkerInv, Resting
<1>1. /\ v \in WorkerStates /\ Sound(v) /\ v.force = worker.force
      /\ v.closed = worker.closed /\ v.config = worker.config /\ v.queue = worker.queue
      /\ v.placeholder = worker.placeholder /\ v.rendered = worker.rendered
      /\ v.buffer = worker.buffer /\ v.reader = worker.reader /\ v.loops = worker.loops
      /\ v.canvas = worker.canvas /\ v.doing = "idle"
  BY <1>0, IdleMoves
<1>2. Message("reconfigured") \in Messages
  BY MessageShape DEF Types
<1>3. /\ worker' = v /\ UNCHANGED <<page, congested, wire, spent>>
      /\ outbox' = Append(outbox, Message("reconfigured")) /\ outbox' \in Seq(Messages)
  BY <1>2, Spoke
<1> HIDE DEF v
<1>4. WorkerInv(v, accepted)
  BY <1>0, <1>1 DEF WorkerInv, Resting, ShowsOnly, Paced
<1>5. "reconfigured" \in Answers /\ Changing
  BY DEF Answers, Changing
<1>6. PageInv'
  BY <1>1, <1>3, <1>5, Parts, ChangeAnswered
<1> QED
  BY <1>1, <1>3, <1>6, <1>4, Parts, WorkerStep

LEMMA CheckSupportStep ==
  ASSUME IInv, CheckSupport
  PROVE  IInv'
<1>1. worker.doing = "support" /\ UNCHANGED <<inbox, accepted>>
  BY DEF CheckSupport
<1>2. CASE ~worker.closed /\ Work([Pausing(worker) EXCEPT !.doing = "flush"], <<>>)
  <2> DEFINE v == [Pausing(worker) EXCEPT !.doing = "flush"]
  <2>1. /\ v \in WorkerStates /\ WorkerInv(v, accepted)
        /\ v.paused /\ v.doing = "flush" /\ v.force = worker.force /\ v.closed = worker.closed
        /\ v.config = worker.config /\ v.queue = worker.queue /\ v.call = worker.call
    BY <1>1, <1>2, Parts, FlushBegun
  <2>2. Work(v, <<>>)
    BY <1>2
  <2> HIDE DEF v
  <2>3. worker' = v /\ UNCHANGED <<page, congested, wire, spent, outbox>> /\ outbox' \in Seq(Messages)
    BY <2>2, Worked
  <2>4. PageInv'
    BY <1>1, <2>1, <2>3, Parts, ChangePauses
  <2> QED
    BY <1>1, <2>1, <2>3, <2>4, Parts, WorkerStep
<1>3. CASE GiveUpReconfigure
  BY <1>1, <1>3, GiveUpStep DEF Changing
<1> QED
  BY <1>2, <1>3 DEF CheckSupport

LEMMA FinishFlushStep ==
  ASSUME IInv, FinishFlush
  PROVE  IInv'
<1>1. worker.doing = "flush" /\ UNCHANGED <<inbox, accepted>>
  BY DEF FinishFlush
<1>2. CASE ~worker.closed /\ Flushed(worker) /\ Work(Reconfigured(worker), <<Message("reconfigured")>>)
  <2> DEFINE v == Reconfigured(worker)
  <2>0. worker.queue = <<>>
    BY <1>2 DEF Flushed
  <2>1. /\ v \in WorkerStates /\ WorkerInv(v, accepted) /\ v.force /\ v.doing = "idle"
        /\ v.closed = worker.closed /\ v.paused = worker.paused /\ v.queue = <<>>
        /\ v.config = worker.call.quality
    BY <1>1, <1>2, <2>0, Parts, ReconfiguredMoves
  <2>2. Work(v, <<Message("reconfigured")>>)
    BY <1>2
  <2>3. Message("reconfigured") \in Messages
    BY MessageShape DEF Types
  <2> HIDE DEF v
  <2>4. /\ worker' = v /\ UNCHANGED <<page, congested, wire, spent>>
        /\ outbox' = Append(outbox, Message("reconfigured")) /\ outbox' \in Seq(Messages)
    BY <2>2, <2>3, Spoke
  <2>5. "reconfigured" \in Answers /\ Changing
    BY <1>1 DEF Answers, Changing
  <2>6. PageInv'
    BY <1>1, <1>2, <2>0, <2>1, <2>4, <2>5, Parts, ChangeAnswered
  <2> QED
    BY <1>1, <2>1, <2>4, <2>6, Parts, WorkerStep
<1>3. CASE GiveUpReconfigure
  BY <1>1, <1>3, GiveUpStep DEF Changing
<1>4. CASE worker.closed /\ Work(Idle(worker), <<Message("reconfigured")>>)
  BY <1>1, <1>4, LateStep
<1> QED
  BY <1>2, <1>3, <1>4 DEF FinishFlush

(* A command that waits for nothing, and changes only the pauses.          *)
LEMMA ImmediateStep ==
  ASSUME IInv, NEW type \in {"resume", "transport-pause", "transport-resume"},
         NEW v \in WorkerStates, Immediate(type, v, <<>>), WorkerInv(v, accepted),
         v.closed = worker.closed, v.config = worker.config, v.queue = worker.queue,
         v.paused = worker.paused \/ type = "resume", v.doing = worker.doing,
         v.force \/ (v.force = worker.force /\ type = "transport-pause")
  PROVE  IInv'
<1>1. Obey(type) /\ Work(v, <<>>) /\ UNCHANGED accepted
  BY DEF Immediate
<1>2. /\ inbox # <<>> /\ Head(inbox) \in Messages /\ Head(inbox).type = type
      /\ inbox' = Tail(inbox) /\ inbox' \in Seq(Messages) /\ worker.doing = "idle"
  BY <1>1, Read
<1>3. worker' = v /\ UNCHANGED <<page, congested, wire, spent, outbox>> /\ outbox' \in Seq(Messages)
  BY <1>1, Worked
<1>4. PageInv'
  BY <1>2, <1>3, Parts, Obeyed
<1> QED
  BY <1>1, <1>2, <1>3, <1>4, Parts, WorkerStep

LEMMA HandleResumeStep ==
  ASSUME IInv, HandleResume
  PROVE  IInv'
<1> DEFINE v == Started([worker EXCEPT !.paused = FALSE, !.force = TRUE])
<1>1. /\ v \in WorkerStates /\ WorkerInv(v, accepted) /\ v.force /\ ~v.paused
      /\ v.closed = worker.closed /\ v.config = worker.config /\ v.queue = worker.queue
      /\ v.doing = worker.doing /\ v.call = worker.call
  BY Parts, Resumed
<1>2. Immediate("resume", v, <<>>)
  BY DEF HandleResume
<1> HIDE DEF v
<1> QED
  BY <1>1, <1>2, ImmediateStep

LEMMA HandleTransportPauseStep ==
  ASSUME IInv, HandleTransportPause
  PROVE  IInv'
<1> DEFINE v == [worker EXCEPT !.networkPaused = TRUE, !.timer = FALSE]
<1>1. v \in WorkerStates /\ WorkerInv(v, accepted) /\ Alike(v, worker) /\ v.force = worker.force
  BY Parts, Paused
<1>2. Immediate("transport-pause", v, <<>>)
  BY DEF HandleTransportPause
<1> HIDE DEF v
<1> QED
  BY <1>1, <1>2, ImmediateStep DEF Alike

LEMMA HandleTransportResumeStep ==
  ASSUME IInv, HandleTransportResume
  PROVE  IInv'
<1> DEFINE v == Started(Unpaused(worker))
<1>1. v \in WorkerStates /\ WorkerInv(v, accepted) /\ Alike(v, worker) /\ v.force
  BY Parts, UnpausedMoves
<1>2. Immediate("transport-resume", v, <<>>)
  BY DEF HandleTransportResume
<1> HIDE DEF v
<1> QED
  BY <1>1, <1>2, ImmediateStep DEF Alike

LEMMA HandleCloseStep ==
  ASSUME IInv, HandleClose
  PROVE  IInv'
<1> DEFINE v == Closed(worker)
<1>1. Obey("close") /\ Work(v, <<Message("closed")>>) /\ UNCHANGED accepted
  BY DEF HandleClose, Immediate
<1>2. /\ inbox # <<>> /\ Head(inbox).type = "close"
      /\ inbox' = Tail(inbox) /\ inbox' \in Seq(Messages) /\ worker.doing = "idle"
  BY <1>1, Read
<1>3. v \in WorkerStates /\ WorkerInv(v, accepted)
  BY <1>2, Parts, FailMoves
<1>4. Message("closed") \in Messages
  BY MessageShape DEF Types
<1> HIDE DEF v
<1>5. /\ worker' = v /\ UNCHANGED <<page, congested, wire, spent>>
      /\ outbox' = Append(outbox, Message("closed")) /\ outbox' \in Seq(Messages)
  BY <1>1, <1>4, Spoke
<1>6. PageInv'
  BY <1>2, <1>5, Parts, Closes
<1> QED
  BY <1>1, <1>2, <1>3, <1>5, <1>6, Parts, WorkerStep

LEMMA IgnoreCommandStep ==
  ASSUME IInv, IgnoreCommand
  PROVE  IInv'
<1>1. /\ worker.doing = "idle" /\ worker.closed
      /\ inbox # <<>> /\ Head(inbox).type \notin {"init", "close"}
      /\ inbox' = Tail(inbox) /\ Work(worker, <<>>) /\ UNCHANGED accepted
  BY DEF IgnoreCommand
<1>2. inbox' \in Seq(Messages)
  BY <1>1, Parts, Taken
<1>3. worker' = worker /\ UNCHANGED <<page, congested, wire, spent, outbox>> /\ outbox' \in Seq(Messages)
  BY <1>1, Worked
<1>4. PageInv'
  BY <1>1, <1>3, Parts, Obeyed
<1> QED
  BY <1>1, <1>2, <1>3, <1>4, Parts, WorkerStep

LEMMA ServeStep ==
  ASSUME IInv, Serve
  PROVE  IInv'
<1>1. CASE HandleSource
  BY <1>1, SourceStops DEF HandleSource
<1> QED
  BY <1>1, HandleInitStep, FinishInitStep, FinishSourceStep, HandlePlaceholderStep,
     FinishPlaceholderStep, HandleReconfigureStep, CheckSupportStep, FinishFlushStep,
     HandleResumeStep, HandleTransportPauseStep, HandleTransportResumeStep, HandleCloseStep,
     IgnoreCommandStep DEF Serve
-----------------------------------------------------------------------------
(* What runs beside the commands.                                          *)

(* A step that tells the page nothing.                                     *)
LEMMA SilentStep ==
  ASSUME IInv, NEW v \in WorkerStates, WorkerInv(v, accepted), Work(v, <<>>), Beside,
         v.closed = worker.closed, v.config = worker.config, v.paused = worker.paused,
         v.call = worker.call, v.doing = worker.doing,
         \/ v.queue = worker.queue /\ (worker.force => v.force)
         \/ \E m \in Messages : /\ v.queue = Append(worker.queue, m) /\ (worker.force => m.key)
                                /\ worker.timer
  PROVE  IInv'
<1>1. UNCHANGED <<inbox, accepted>>
  BY DEF Beside
<1>2. worker' = v /\ UNCHANGED <<page, congested, wire, spent, outbox>> /\ outbox' \in Seq(Messages)
  BY Worked
<1>3. PageInv'
  BY <1>1, <1>2, Parts, GoesOn
<1> QED
  BY <1>1, <1>2, <1>3, Parts, WorkerStep

LEMMA FailStep ==
  ASSUME IInv, NEW v \in WorkerStates, WorkerInv(v, accepted), Work(v, <<Message("error")>>), Beside,
         ~worker.closed, worker.doing # "init", v.closed, v.force, v.config = None, v.queue = <<>>,
         v.doing = worker.doing, v.call = worker.call
  PROVE  IInv'
<1>1. UNCHANGED <<inbox, accepted>>
  BY DEF Beside
<1>2. Message("error") \in Messages
  BY MessageShape DEF Types
<1>3. /\ worker' = v /\ UNCHANGED <<page, congested, wire, spent>>
      /\ outbox' = Append(outbox, Message("error")) /\ outbox' \in Seq(Messages)
  BY <1>2, Spoke
<1>4. PageInv'
  BY <1>1, <1>3, Parts, Fails
<1> QED
  BY <1>1, <1>3, <1>4, Parts, WorkerStep

LEMMA FrameStep ==
  ASSUME IInv, NEW c \in Sources, Frame(c)
  PROVE  IInv'
<1>1. CASE OfThisGeneration(c)
  <2> DEFINE v == Arrived(worker, c)
  <2>1. Work(v, <<>>) /\ Beside
    BY <1>1 DEF Frame
  <2>2. v \in WorkerStates /\ WorkerInv(v, accepted) /\ Alike(v, worker) /\ (worker.force => v.force)
    BY <1>1, Parts, FrameArrives DEF OfThisGeneration
  <2> HIDE DEF v
  <2> QED
    BY <2>1, <2>2, SilentStep DEF Alike
<1>2. CASE ~OfThisGeneration(c)
  <2> DEFINE v == [worker EXCEPT !.loops = @ \ {c}]
  <2>1. Work(v, <<>>) /\ Beside
    BY <1>2 DEF Frame, Ended
  <2>2. v \in WorkerStates /\ WorkerInv(v, accepted) /\ Alike(v, worker) /\ v.force = worker.force
    BY <1>2, Parts, FrameDropped DEF OfThisGeneration
  <2> HIDE DEF v
  <2> QED
    BY <2>1, <2>2, SilentStep DEF Alike
<1> QED
  BY <1>1, <1>2

LEMMA EndOfSourceStep ==
  ASSUME IInv, NEW c \in Sources, EndOfSource(c)
  PROVE  IInv'
<1>1. CASE OfThisGeneration(c)
  <2> DEFINE v == Stopped(Held([worker EXCEPT !.loops = @ \ {c}]))
  <2>1. Work(v, <<>>) /\ Beside
    BY <1>1 DEF EndOfSource, Ended
  <2>2. v \in WorkerStates /\ WorkerInv(v, accepted) /\ Alike(v, worker) /\ v.force
    BY <1>1, Parts, SourceEnds DEF OfThisGeneration
  <2> HIDE DEF v
  <2> QED
    BY <2>1, <2>2, SilentStep DEF Alike
<1>2. CASE ~OfThisGeneration(c)
  <2> DEFINE v == [worker EXCEPT !.loops = @ \ {c}]
  <2>1. Work(v, <<>>) /\ Beside
    BY <1>2 DEF EndOfSource, Ended
  <2>2. v \in WorkerStates /\ WorkerInv(v, accepted) /\ Alike(v, worker) /\ v.force = worker.force
    BY <1>2, Parts, FrameDropped DEF OfThisGeneration
  <2> HIDE DEF v
  <2> QED
    BY <2>1, <2>2, SilentStep DEF Alike
<1> QED
  BY <1>1, <1>2

LEMMA ReadFailsStep ==
  ASSUME IInv, NEW c \in Sources, ReadFails(c)
  PROVE  IInv'
<1> DEFINE v == Closed([worker EXCEPT !.loops = @ \ {c}])
<1>1. c \in worker.loops /\ Work(v, <<Message("error")>>) /\ Beside
  BY DEF ReadFails, Fail, Ended
<1>2. /\ v \in WorkerStates /\ WorkerInv(v, accepted) /\ v.closed /\ v.force
      /\ v.config = None /\ v.queue = <<>> /\ v.doing = worker.doing /\ v.call = worker.call
  BY <1>1, Parts, ReadFailed
<1>3. ~worker.closed /\ worker.doing # "init"
  BY <1>1, Parts DEF Sound, Silent
<1> HIDE DEF v
<1> QED
  BY <1>1, <1>2, <1>3, FailStep

LEMMA EncoderFailsStep ==
  ASSUME IInv, EncoderFails
  PROVE  IInv'
<1> DEFINE v == Closed(worker)
<1>1. ~worker.closed /\ worker.doing # "init" /\ Work(v, <<Message("error")>>) /\ Beside
  BY Parts DEF EncoderFails, Fail, Sound, Silent
<1>2. /\ v \in WorkerStates /\ WorkerInv(v, accepted) /\ v.closed /\ v.force
      /\ v.config = None /\ v.queue = <<>> /\ v.doing = worker.doing /\ v.call = worker.call
  BY <1>1, Parts, FailMoves
<1> HIDE DEF v
<1> QED
  BY <1>1, <1>2, FailStep

LEMMA HandleAudioClockStep ==
  ASSUME IInv, HandleAudioClock
  PROVE  IInv'
<1>1. PICK gap \in BOOLEAN : Work(Started([worker EXCEPT !.clock = "fresh", !.force = @ \/ gap]), <<>>)
  BY DEF HandleAudioClock
<1> DEFINE v == Started([worker EXCEPT !.clock = "fresh", !.force = @ \/ gap])
<1>2. worker.doing = "idle" /\ ~worker.closed /\ Beside
  BY DEF HandleAudioClock, Beside
<1>3. v \in WorkerStates /\ WorkerInv(v, accepted) /\ Alike(v, worker) /\ (worker.force => v.force)
  BY <1>2, Parts, ClockHeard
<1>4. Work(v, <<>>)
  BY <1>1
<1> HIDE DEF v
<1> QED
  BY <1>2, <1>3, <1>4, SilentStep DEF Alike

LEMMA ClockGoesStaleStep ==
  ASSUME IInv, ClockGoesStale
  PROVE  IInv'
<1> DEFINE v == [worker EXCEPT !.clock = "stale"]
<1>1. ~worker.closed /\ worker.doing # "init" /\ Work(v, <<>>) /\ Beside
  BY Parts DEF ClockGoesStale, Sound, Silent
<1>2. v \in WorkerStates /\ WorkerInv(v, accepted) /\ Alike(v, worker) /\ v.force = worker.force
  BY <1>1, Parts, ClockLost
<1> HIDE DEF v
<1> QED
  BY <1>1, <1>2, SilentStep DEF Alike

(* The timer draws: a frame of the source, the placeholder or again what   *)
(* is on the canvas.                                                       *)
LEMMA DrawStep ==
  ASSUME IInv, worker.timer, Beside, NEW key \in BOOLEAN, worker.force => key,
         NEW w \in WorkerStates, Resting(w, accepted), w.reader \in w.loops \cup {0}, w.timer,
         Alike(w, worker), w.force = worker.force,
         NEW canvas \in Sources \cup {0}, canvas # 0 => ~w.placeholder,
         w.doing \notin {"source", "placeholder"} => canvas \in {accepted, 0},
         Work(Submitted(w, canvas, key), <<>>)
  PROVE  IInv'
<1> DEFINE v == Submitted(w, canvas, key)
<1>1. /\ v \in WorkerStates /\ WorkerInv(v, accepted)
      /\ v.closed = w.closed /\ v.paused = w.paused /\ v.config = w.config
      /\ v.doing = w.doing /\ v.call = w.call
      /\ \/ v.queue = w.queue /\ v.force = w.force
         \/ v.queue = Append(w.queue, Packet(key)) /\ w.config # None
  <2>1. w.config = worker.config
    BY DEF Alike
  <2>2. worker \in WorkerStates /\ accepted \in Sources \cup {0}
    BY Parts
  <2> QED
    BY <2>1, <2>2, SubmittedMoves
<1>2. Packet(key) \in Messages /\ Packet(key).key = key
  BY Parts, PacketShape
<1>3. Work(v, <<>>)
  OBVIOUS
<1> HIDE DEF v
<1> QED
  BY <1>1, <1>2, <1>3, SilentStep DEF Alike

LEMMA RunPacingStep ==
  ASSUME IInv, RunPacing
  PROVE  IInv'
<1>1. worker.timer /\ Beside
  BY DEF RunPacing
<1>2. CASE worker.clock = "stale" /\ Work([worker EXCEPT !.timer = FALSE], <<>>)
  <2> DEFINE v == [worker EXCEPT !.timer = FALSE]
  <2>1. v \in WorkerStates /\ WorkerInv(v, accepted) /\ Alike(v, worker) /\ v.force = worker.force
    BY <1>2, Parts, TimerStops
  <2>2. Work(v, <<>>)
    BY <1>2
  <2> HIDE DEF v
  <2> QED
    BY <1>1, <2>1, <2>2, SilentStep DEF Alike
<1>3. ASSUME NEW due \in BOOLEAN, NEW late \in BOOLEAN,
             LET key   == worker.force \/ due
                 ready == ~worker.placeholder /\
                            (worker.rendered \/ Len(worker.buffer) >= SourceBuffer \/ late) IN
             Work(IF ready /\ worker.buffer # <<>>
                    THEN Submitted([worker EXCEPT !.buffer = Tail(@)], Head(worker.buffer), key)
                  ELSE IF worker.placeholder \/ ~worker.rendered THEN Submitted(worker, 0, key)
                  ELSE Submitted(worker, worker.canvas, key), <<>>)
      PROVE  IInv'
  <2> DEFINE key == worker.force \/ due
             ready == ~worker.placeholder /\
                        (worker.rendered \/ Len(worker.buffer) >= SourceBuffer \/ late)
             w == [worker EXCEPT !.buffer = Tail(@)]
  <2>1. \/ /\ ready /\ worker.buffer # <<>>
           /\ Work(Submitted(w, Head(worker.buffer), key), <<>>)
        \/ Work(Submitted(worker, 0, key), <<>>)
        \/ /\ ~worker.placeholder /\ worker.rendered
           /\ Work(Submitted(worker, worker.canvas, key), <<>>)
    BY <1>3
  <2>2. key \in BOOLEAN /\ (worker.force => key)
    BY Parts DEF WorkerStates
  <2>3. ready => ~worker.placeholder
    OBVIOUS
  <2>4. Resting(worker, accepted) /\ worker.reader \in worker.loops \cup {0} /\ ShowsOnly(worker, accepted)
    BY Parts DEF WorkerInv, Resting
  <2> HIDE DEF key, ready
  <2>5. CASE /\ ready /\ worker.buffer # <<>>
             /\ Work(Submitted(w, Head(worker.buffer), key), <<>>)
    <3>1. /\ w \in WorkerStates /\ Resting(w, accepted) /\ w.reader \in w.loops \cup {0} /\ w.timer
          /\ Alike(w, worker) /\ w.force = worker.force /\ w.placeholder = worker.placeholder
          /\ Head(worker.buffer) \in Sources
          /\ worker.doing \notin {"source", "placeholder"} => Head(worker.buffer) = accepted
      BY <1>1, <2>5, Parts, PictureTaken
    <3> HIDE DEF w
    <3> QED
      BY <1>1, <2>2, <2>3, <2>5, <3>1, DrawStep DEF Alike
  <2>6. CASE Work(Submitted(worker, 0, key), <<>>)
    BY <1>1, <2>2, <2>4, <2>6, Parts, DrawStep DEF Alike
  <2>7. CASE /\ ~worker.placeholder /\ worker.rendered
             /\ Work(Submitted(worker, worker.canvas, key), <<>>)
    <3>1. worker.canvas \in Sources \cup {0}
      BY Parts DEF WorkerStates
    <3>2. worker.doing \notin {"source", "placeholder"} => worker.canvas \in {accepted, 0}
      BY <2>4, <2>7 DEF ShowsOnly
    <3> QED
      BY <1>1, <2>2, <2>4, <2>7, <3>1, <3>2, Parts, DrawStep DEF Alike
  <2> QED
    BY <2>1, <2>5, <2>6, <2>7
<1> QED
  BY <1>2, <1>3 DEF RunPacing

LEMMA OutputStep ==
  ASSUME IInv, Output
  PROVE  IInv'
<1> DEFINE v == [worker EXCEPT !.queue = Tail(@)]
           m == Head(worker.queue)
<1>1. worker.queue # <<>> /\ Work(v, <<m>>) /\ UNCHANGED <<inbox, accepted>>
  BY DEF Output, Beside
<1>2. /\ v \in WorkerStates /\ WorkerInv(v, accepted) /\ v.force = worker.force
      /\ v.closed = worker.closed /\ v.paused = worker.paused /\ v.config = worker.config
      /\ v.queue = Tail(worker.queue) /\ v.doing = worker.doing /\ v.call = worker.call
      /\ ~worker.closed /\ worker.doing # "init"
      /\ m \in Messages /\ m.type = "packet" /\ m.quality = worker.config /\ worker.config # None
  BY <1>1, Parts, PacketPut
<1> HIDE DEF v
<1>3. /\ worker' = v /\ UNCHANGED <<page, congested, wire, spent>>
      /\ outbox' = Append(outbox, m) /\ outbox' \in Seq(Messages)
  BY <1>1, <1>2, Spoke
<1>4. PageInv'
  BY <1>1, <1>2, <1>3, Parts, PutsOut
<1> QED
  BY <1>1, <1>2, <1>3, <1>4, Parts, WorkerStep
-----------------------------------------------------------------------------
(* The invariant.                                                          *)

LEMMA Initially == Init => IInv
<1> SUFFICES ASSUME Init PROVE IInv
  OBVIOUS
<1> DEFINE m == Message("init")
<1>1. m \in Messages /\ m.type = "init"
  BY MessageShape DEF Types
<1>2. /\ page \in Pages /\ page.phase = "starting" /\ page.source = 0 /\ page.quality = None
      /\ congested \in BOOLEAN /\ wire \in [quality : Qualities, gap : BOOLEAN]
      /\ wire.quality = First
      /\ spent \in [sources : 0 .. MaxSources, changes : Nat, polls : Nat]
      /\ accepted = 0 /\ worker = Loaded
  BY VideoAssumption DEF Init, Pages
<1>3. inbox = <<m>> /\ outbox = <<>>
  BY DEF Init
<1> HIDE DEF m
<1>4. /\ inbox \in Seq(Messages) /\ Has(inbox, "init") /\ ~Has(inbox, "close")
      /\ \A n \in DOMAIN inbox : n = 1 /\ inbox[n].type = "init"
  <2>1. inbox \in Seq(Messages) /\ \A n \in DOMAIN inbox : n = 1 /\ inbox[n] = m
    BY <1>1, <1>3
  <2>2. 1 \in DOMAIN inbox
    BY <1>3
  <2> QED
    BY <1>1, <2>1, <2>2 DEF Has
<1>5. outbox \in Seq(Messages) /\ DOMAIN outbox = {} /\ \A t \in Types : ~Has(outbox, t)
  BY <1>3, Nothing
<1>6. /\ worker \in WorkerStates /\ worker.closed /\ worker.doing = "idle" /\ WorkerInv(worker, accepted)
      /\ worker.config = None /\ worker.force
  BY <1>2, LoadedShape DEF Loaded
<1>7. ShapeInv
  BY <1>2, <1>4, <1>5, <1>6 DEF ShapeInv
<1>8. LoadInv
  BY <1>2, <1>3, <1>4, <1>5, <1>6 DEF LoadInv, Open, Unloaded
<1>9. ChangeInv /\ ResumeInv
  <2>1. ~Asked /\ ~Changing /\ ~Answered /\ ~Has(inbox, "resume")
    BY <1>4, <1>5, <1>6 DEF Asked, Changing, Answered, Has
  <2> QED
    BY <1>2, <1>4, <1>5, <1>6, <2>1 DEF ChangeInv, ResumeInv
<1>10. QualityInv /\ GapInv
  BY <1>5, <1>6 DEF QualityInv, GapInv, Healing, Types
<1> QED
  BY <1>6, <1>7, <1>8, <1>9, <1>10 DEF IInv, PageInv

LEMMA Stepwise == IInv /\ [Next]_vars => IInv'
<1> SUFFICES ASSUME IInv, [Next]_vars PROVE IInv'
  OBVIOUS
<1>1. CASE GiveUp
  BY <1>1, Terminated DEF GiveUp
<1>2. CASE UNCHANGED vars
  BY <1>2 DEF vars, IInv, ShapeInv, PageInv, LoadInv, ChangeInv, ResumeInv, QualityInv, GapInv,
     Open, Unloaded, Asked, Changing, Answered, Healing
<1>3. ASSUME NEW c \in Sources, Frame(c) \/ EndOfSource(c) \/ ReadFails(c)
      PROVE  IInv'
  BY <1>3, FrameStep, EndOfSourceStep, ReadFailsStep
<1> QED
  BY <1>1, <1>2, <1>3, CallSourceStep, CallReconfigureStep, CallPlaceholderStep, CallCloseStep, PollStep,
     DeliverStep, ServeStep, HandleAudioClockStep, RunPacingStep, OutputStep, EncoderFailsStep,
     ClockGoesStaleStep DEF Next

LEMMA Invariance == Spec => []IInv
BY Initially, Stepwise, PTL DEF Spec
-----------------------------------------------------------------------------
(* What it is worth.                                                       *)

(* Whatever the page asks and the browser does, the variables keep their   *)
(* types: buffer and codec stay within SOURCE_BUFFER_FRAMES and            *)
(* MAX_ENCODER_QUEUE, and the reader has a loop that reads it.             *)
THEOREM TypeCorrect == Spec => []TypeOK
<1>1. IInv => TypeOK
  <2> SUFFICES ASSUME IInv PROVE TypeOK
    OBVIOUS
  <2>1. /\ page.phase \in {"starting", "ready", "closing", "terminated"}
        /\ page.source \in Sources \cup {0} /\ page.quality \in Qualities \cup {None}
        /\ congested \in BOOLEAN /\ wire \in [quality : Qualities, gap : BOOLEAN]
    BY Parts DEF ShapeInv, Pages
  <2>2. \A n \in DOMAIN inbox : inbox[n].source \in Sources \cup {0}
    <3>1. \A n \in DOMAIN inbox : inbox[n] \in Messages
      BY Parts
    <3> QED
      BY <3>1 DEF Messages
  <2>3. /\ worker.buffer \in Seq(Sources) /\ worker.loops \subseteq Sources
        /\ worker.canvas \in Sources \cup {0} /\ worker.config \in Qualities \cup {None}
        /\ worker.clock \in {"none", "fresh", "stale"}
    BY Parts DEF WorkerStates
  <2>4. /\ Len(worker.buffer) <= SourceBuffer /\ Len(worker.queue) <= EncoderQueue
        /\ worker.reader \in worker.loops \cup {0}
    BY Parts DEF WorkerInv, Sound, Sized
  <2> QED
    BY <2>1, <2>2, <2>3, <2>4 DEF TypeOK
<1> QED
  BY Invariance, <1>1, PTL

(* Once setSource or usePlaceholder has finished, onSourceFrame and        *)
(* createOutputFrame have only frames of what the page asked for last,     *)
(* although readSource of an older generation may still be under way.      *)
THEOREM NoOldPictureHolds == Spec => []NoOldPicture
<1>1. IInv => NoOldPicture
  BY Parts DEF WorkerInv, Resting, ShowsOnly, NoOldPicture
<1> QED
  BY Invariance, <1>1, PTL

(* While the server misses a key frame, because packets were dropped in a  *)
(* congestion or the encoder is new, one is forced, encoded or posted, or  *)
(* a message that forces one is on its way.                                *)
THEOREM GapHealsHolds == Spec => []GapHeals
<1>1. IInv => GapHeals
  BY Parts DEF PageInv, Open, GapInv, Healing, GapHeals, Posted, Has
<1> QED
  BY Invariance, <1>1, PTL

(* A packet is sent under the quality the server was told last: a change   *)
(* of quality flushes the encoder, and the worker makes no packet between  *)
(* its answer and the resume that follows the notice to the server.        *)
THEOREM QualityInStepHolds == Spec => []QualityInStep
<1>1. IInv => QualityInStep
  <2> SUFFICES ASSUME IInv, outbox # <<>>, Head(outbox).type = "packet", page.phase = "ready"
               PROVE  Head(outbox).quality = wire.quality
    BY DEF QualityInStep
  <2>1. 1 \in DOMAIN outbox /\ outbox[1] = Head(outbox)
    BY Parts, Taken
  <2> QED
    BY <2>1, Parts DEF PageInv, Open, QualityInv
<1> QED
  BY Invariance, <1>1, PTL

(* However pauses of a change and of the transport, the audio clock and    *)
(* the sources come and go, a worker that may draw has set the timer that  *)
(* draws: scheduleNextFrame was called after the last of them.             *)
THEOREM OutputRunsHolds == Spec => []OutputRuns
<1>1. IInv => OutputRuns
  BY Parts DEF WorkerInv, Paced, OutputRuns
<1> QED
  BY Invariance, <1>1, PTL
=============================================================================
