----------------------------- MODULE VideoSource -----------------------------
(***************************************************************************)
(* The video source of a session of the VRCStreamer client: it is added,   *)
(* replaced, hidden, shown again and removed while earlier calls still     *)
(* wait for the browser or for the video worker (createVideoStreamer,      *)
(* installVideoSource, setVideoSourceHidden and their kin in streamer.js). *)
(*                                                                         *)
(* Of the worker only its promise is left, which VideoWorker details: it   *)
(* takes sources and placeholders in the order they were posted, or fails. *)
(* A source is fed to it by a clone of its track, made by a call of        *)
(* setSource and named after that call.                                    *)
(***************************************************************************)
EXTENDS Naturals, Sequences

CONSTANTS
  MaxSources,           \* bounds of the model: videos captured,
  MaxWorkers,           \*   workers created,
  MaxCalls              \*   calls of setSource

Sources == 1 .. MaxSources
Workers == 1 .. MaxWorkers
Calls   == 1 .. MaxCalls

ASSUME SourceAssumption == MaxSources \in Nat /\ MaxWorkers \in Nat /\ MaxCalls \in Nat

VARIABLES
  active,               \* app.active is set
  current, screen,      \* app.active.sources: its video, has it a screen audio
  video,                \* app.active.video
  server,               \* video_start was sent, and no video_stop since
  captured,             \* how many videos were captured
  hidden, live,         \* sources marked hidden, sources whose stream runs
  clones,               \* calls whose clone runs
  worker, call,
  request               \* the call of addOrReplaceSource under way

session == <<active, current, screen, video, server>>
vars    == <<session, captured, hidden, live, clones, worker, call, request>>

(* A worker and its streamer: the call that feeds it, the source it was    *)
(* made for and the one its api names, its stop timer, its messages.       *)
Unmade ==
  [state |-> "unused", feed |-> 0, maker |-> 0, source |-> 0, timer |-> FALSE,
   pending |-> 0, inbox |-> <<>>, shows |-> 0]

NoCall == [step |-> "none", source |-> 0, worker |-> 0, kind |-> "none"]

(* started is the code's videoStartSent.                                   *)
NoRequest ==
  [step |-> "none", source |-> 0, worker |-> 0, previous |-> 0, started |-> FALSE]

Init ==
  /\ active = TRUE
  /\ current = 0 /\ screen \in BOOLEAN /\ video = 0 /\ server = FALSE
  /\ captured = 0 /\ hidden = {} /\ live = {} /\ clones = {}
  /\ worker = [w \in Workers |-> Unmade]
  /\ call = [k \in Calls |-> NoCall]
  /\ request = NoRequest
-----------------------------------------------------------------------------
Placeholder == 0        \* in an inbox, among the calls

Running(w) == worker[w].state \in {"loading", "ready"}

Fresh(k) == call[k].step = "none" /\ \A j \in 1 .. k - 1 : call[j].step # "none"

Waiting == {"constraining", "posted", "accepted", "rejected"}

(* setSource up to its first await; it stops the stop timer.               *)
CallSource(k, kind, s, w) ==
  /\ Fresh(k)
  /\ call' = [call EXCEPT ![k] =
       [step |-> "constraining", source |-> s, worker |-> w, kind |-> kind]]
  /\ clones' = clones \cup {k}

(* A call ends: its promise is settled, and so may be that of the call a   *)
(* closed worker has not answered.                                         *)
SettledAlone(k, pending) ==                                       \* variant
  [j \in Calls |-> IF j = k THEN [call[j] EXCEPT !.step = "done"] ELSE call[j]]
Settled(k, pending) ==
  [j \in Calls |-> IF j = k THEN [call[j] EXCEPT !.step = "done"]
                   ELSE IF j = pending THEN [call[j] EXCEPT !.step = "rejected"]
                   ELSE call[j]]

Stopped(r) == [r EXCEPT !.state = "closed", !.pending = 0, !.inbox = <<>>, !.shows = 0]

(* close: the streamer's timer, its clone and its worker.                  *)
CloseKeepingFeed(w, k) ==                                         \* variant
  /\ worker' = [worker EXCEPT ![w] = [Stopped(@) EXCEPT !.timer = FALSE]]
  /\ clones' = clones \ {k}
  /\ call' = Settled(k, worker[w].pending)
Close(w, k) ==
  /\ worker' = [worker EXCEPT ![w] = [Stopped(@) EXCEPT !.timer = FALSE, !.feed = 0]]
  /\ clones' = clones \ {k, worker[w].feed}
  /\ call' = Settled(k, worker[w].pending)

(* stopActiveVideo                                                         *)
StopVideoQuietly(k) == Close(video, k) /\ video' = 0 /\ UNCHANGED server  \* variant
StopVideo(k) == Close(video, k) /\ video' = 0 /\ server' = FALSE

(* placeholder, for a worker whose api then names source s.                *)
Covered(r, s, timer) ==
  [r EXCEPT !.feed = 0, !.source = s, !.timer = timer,
            !.inbox = IF r.state = "ready" THEN Append(@, Placeholder) ELSE @]

ShowPlaceholder(s, timer) ==
  /\ worker' = [worker EXCEPT ![video] = Covered(@, s, timer)]
  /\ clones' = clones \ {worker[video].feed}

(* disposeVideoSource with its hold: the placeholder stays for a while.    *)
Dispose(s) ==
  /\ live' = live \ {s}
  /\ IF s # 0 /\ video # 0 /\ worker[video].source = s
       THEN ShowPlaceholder(0, TRUE)
       ELSE UNCHANGED <<worker, clones>>
-----------------------------------------------------------------------------
(* Adding a video, one request at a time.                                  *)

(* addOrReplaceSource asks the browser for a capture.                      *)
Request ==
  /\ active /\ request = NoRequest
  /\ request' = [NoRequest EXCEPT !.step = "capturing"]
  /\ UNCHANGED <<session, captured, hidden, live, clones, worker, call>>

(* The user declines, the selection takes too long or has no track, or the *)
(* session is over: what was captured is stopped.                          *)
CaptureFails ==
  /\ request.step = "capturing"
  /\ request' = NoRequest
  /\ UNCHANGED <<session, captured, hidden, live, clones, worker, call>>

(* installAudioSource for the sound of a screen, which takes the video out.*)
InstallScreen ==
  /\ request.step = "capturing" /\ active
  /\ current' = 0 /\ screen' = TRUE
  /\ Dispose(current)
  /\ request' = NoRequest
  /\ UNCHANGED <<active, video, server, captured, hidden, call>>

(* installVideoSource up to its await.                                     *)
InstallVideo ==
  /\ request.step = "capturing" /\ active
  /\ captured < MaxSources
  /\ LET s == captured + 1
         Requested(step, w) ==
           request' = [step |-> step, source |-> s, worker |-> w, previous |-> current,
                       started |-> video = 0] IN
     /\ captured' = s /\ current' = s /\ screen' = FALSE
     /\ live' = live \cup {s}
     /\ \/ /\ video # 0
           /\ \E k \in Calls : CallSource(k, "install", s, video)
           /\ worker' = [worker EXCEPT ![video].timer = FALSE]
           /\ Requested("setting", video)
           /\ UNCHANGED server
        \/ /\ video = 0
           /\ \E w \in Workers :
                /\ worker[w].state = "unused" /\ \A v \in 1 .. w - 1 : worker[v].state # "unused"
                /\ worker' = [worker EXCEPT ![w] = [Unmade EXCEPT !.state = "loading", !.maker = s]]
                /\ Requested("creating", w)
           /\ server' = TRUE
           /\ UNCHANGED <<call, clones>>
  /\ UNCHANGED <<active, video, hidden>>

(* The catch of createVideoStreamer after call k, if it made one: its      *)
(* worker and its clone are stopped, and it waits for the worker to end.   *)
Withdraw(k) ==
  /\ Close(request.worker, k)
  /\ request' = [request EXCEPT !.step = "closing"]
  /\ UNCHANGED <<current, video, server, live>>

(* The catch of installVideoSource after call k, if it made one.           *)
GiveUp(k) ==
  LET s == request.source IN
  /\ request' = NoRequest
  /\ live' = live \ {s}
  /\ current' = IF current = s THEN 0 ELSE current
  /\ IF video # 0 /\ worker[video].source = s THEN StopVideo(k)
     ELSE /\ call' = Settled(k, 0) /\ clones' = clones \ {k}
          /\ server' = (server /\ ~request.started)
          /\ UNCHANGED <<video, worker>>

(* createVideoStreamer: its worker is ready, or the session is over.       *)
WorkerReady(w) ==
  /\ worker[w].state = "loading"
  /\ IF active
       THEN /\ \E k \in Calls : CallSource(k, "create", request.source, w)
            /\ worker' = [worker EXCEPT ![w].state = "ready"]
            /\ request' = [request EXCEPT !.step = "setting"]
            /\ UNCHANGED <<current, video, server, live>>
       ELSE Withdraw(0)
  /\ UNCHANGED <<active, screen, captured, hidden>>

(* The worker reports an error instead, or its script cannot be run.       *)
LoadFails(w) ==
  /\ worker[w].state = "loading"
  /\ Withdraw(0)
  /\ UNCHANGED <<active, screen, captured, hidden>>

(* A withdrawn worker has closed, or was terminated when its time was up.  *)
WorkerClosed ==
  /\ request.step = "closing"
  /\ GiveUp(0)
  /\ UNCHANGED <<active, screen, captured, hidden>>

(* The stream of the source that was replaced is stopped.                  *)
Installed(s) ==
  /\ live' = live \ {request.previous}
  /\ request' = NoRequest

(* The continuation of setSource when the worker said it is ready.         *)
SourceReady(k) ==
  /\ call[k].step = "accepted"
  /\ LET c == call[k]
         w == c.worker
         Fed == /\ worker' = [worker EXCEPT ![w].feed = k, ![w].pending = 0, ![w].source = c.source]
                /\ clones' = clones \ {worker[w].feed}
                /\ call' = Settled(k, 0) IN
     \/ c.kind = "unhide" /\ Fed /\ UNCHANGED <<current, video, server, live, request>>
     \/ c.kind = "install" /\ Fed /\ Installed(c.source) /\ UNCHANGED <<current, video, server>>
     \/ /\ c.kind = "create" /\ active
        /\ Fed /\ Installed(c.source)
        /\ video' = w
        /\ UNCHANGED <<current, server>>
     \/ c.kind = "create" /\ ~active /\ Withdraw(k)
  /\ UNCHANGED <<active, screen, captured, hidden>>

(* The continuation when the call is rejected.                             *)
SourceRejected(k) ==
  /\ call[k].step = "rejected"
  /\ LET c == call[k] IN
     \/ /\ c.kind = "unhide"
        /\ hidden' = IF active /\ video = c.worker /\ current = c.source
                        THEN hidden \cup {c.source} ELSE hidden
        /\ call' = Settled(k, 0) /\ clones' = clones \ {k}
        /\ UNCHANGED <<current, video, server, live, worker, request>>
     \/ c.kind = "install" /\ GiveUp(k) /\ UNCHANGED hidden
     \/ c.kind = "create" /\ Withdraw(k) /\ UNCHANGED hidden
  /\ UNCHANGED <<active, screen, captured>>
-----------------------------------------------------------------------------
(* The browser and the worker.                                             *)

(* constrainVideoTrack returns; the worker takes one source at a time.     *)
Constrained(k) ==
  /\ call[k].step = "constraining"
  /\ LET w == call[k].worker
         free == worker[w].state = "ready" /\ worker[w].pending = 0 IN
     /\ call' = [call EXCEPT ![k].step = IF free THEN "posted" ELSE "rejected"]
     /\ worker' = IF free THEN [worker EXCEPT ![w].pending = k, ![w].inbox = Append(@, k)]
                  ELSE worker
  /\ UNCHANGED <<session, captured, hidden, live, clones, request>>

(* setSource and usePlaceholder of the worker.                             *)
Serve(w) ==
  /\ worker[w].inbox # <<>>
  /\ LET k == Head(worker[w].inbox) IN
     /\ worker' = [worker EXCEPT ![w].inbox = Tail(@), ![w].shows = k]
     /\ call' = [j \in Calls |-> IF j = k THEN [call[j] EXCEPT !.step = "accepted"] ELSE call[j]]
  /\ UNCHANGED <<session, captured, hidden, live, clones, request>>

(* A worker that was ready fails: onError takes the source out that the    *)
(* worker was made for.                                                    *)
WorkerFails(w) ==
  LET s == worker[w].maker
      out == active /\ current = s
      held == out /\ video # 0 /\ worker[video].source = s IN
  /\ worker[w].state = "ready"
  /\ current' = IF out THEN 0 ELSE current
  /\ live' = IF out THEN live \ {s} ELSE live
  /\ call' = Settled(0, worker[w].pending)
  /\ worker' = [worker EXCEPT ![w] = IF held THEN Covered(Stopped(@), 0, TRUE) ELSE Stopped(@)]
  /\ clones' = IF held THEN clones \ {worker[w].feed} ELSE clones
  /\ UNCHANGED <<active, screen, video, server, captured, hidden, request>>
-----------------------------------------------------------------------------
(* The user, a capture that ends, and time.                                *)

(* removeVideoSource                                                       *)
RemoveVideo ==
  /\ active /\ current # 0
  /\ current' = 0
  /\ Dispose(current)
  /\ UNCHANGED <<active, screen, video, server, captured, hidden, call, request>>

(* setVideoSourceHidden                                                    *)
Hide ==
  /\ active /\ current # 0 /\ current \notin hidden
  /\ hidden' = hidden \cup {current}
  /\ IF video # 0 THEN ShowPlaceholder(current, FALSE) ELSE UNCHANGED <<worker, clones>>
  /\ UNCHANGED <<session, captured, live, call, request>>

Unhide ==
  /\ active /\ current \in hidden
  /\ hidden' = hidden \ {current}
  /\ IF video = 0 THEN UNCHANGED <<worker, call, clones>>
     ELSE /\ \E k \in Calls : CallSource(k, "unhide", current, video)
          /\ worker' = [worker EXCEPT ![video].timer = FALSE]
  /\ UNCHANGED <<session, captured, live, request>>

(* The placeholder was held long enough.                                   *)
StopTimer ==
  /\ video # 0 /\ worker[video].timer
  /\ IF current = 0 THEN StopVideo(0)
     ELSE /\ worker' = [worker EXCEPT ![video].timer = FALSE]
          /\ UNCHANGED <<video, server, call, clones>>
  /\ UNCHANGED <<active, current, screen, captured, hidden, live, request>>

(* cleanup, whatever ends the session.                                     *)
Cleanup ==
  /\ active /\ active' = FALSE
  /\ current' = 0 /\ screen' = FALSE
  /\ live' = live \ {current}
  /\ IF video # 0 THEN StopVideo(0)
     ELSE server' = FALSE /\ UNCHANGED <<video, worker, call, clones>>
  /\ UNCHANGED <<captured, hidden, request>>

Next ==
  \/ Request \/ CaptureFails \/ InstallScreen \/ InstallVideo
  \/ RemoveVideo \/ Hide \/ Unhide \/ StopTimer \/ Cleanup
  \/ WorkerClosed
  \/ \E w \in Workers : WorkerReady(w) \/ LoadFails(w) \/ Serve(w) \/ WorkerFails(w)
  \/ \E k \in Calls : Constrained(k) \/ SourceReady(k) \/ SourceRejected(k)

Spec == Init /\ [][Next]_vars

(* The browser answers; a worker that loads is ready in the end or cannot  *)
(* load, one that is ready reads its messages, and one that is closed ends *)
(* or is terminated. People, captures and the failure of a ready worker    *)
(* are not counted on, nor is the stop timer.                              *)
Fairness ==
  /\ \A w \in Workers : WF_vars(WorkerReady(w) \/ LoadFails(w)) /\ WF_vars(Serve(w))
  /\ WF_vars(WorkerClosed)
  /\ \A k \in Calls : WF_vars(Constrained(k)) /\ WF_vars(SourceReady(k) \/ SourceRejected(k))

FairSpec == Spec /\ Fairness
-----------------------------------------------------------------------------
TypeOK ==
  /\ active \in BOOLEAN /\ screen \in BOOLEAN /\ server \in BOOLEAN
  /\ current \in Sources \cup {0} /\ video \in Workers \cup {0}
  /\ captured \in 0 .. MaxSources
  /\ hidden \subseteq 1 .. captured /\ live \subseteq 1 .. captured /\ clones \subseteq Calls
  /\ \A w \in Workers :
       /\ worker[w].state \in {"unused", "loading", "ready", "closed"}
       /\ {worker[w].feed, worker[w].pending, worker[w].shows} \subseteq Calls \cup {0}
       /\ worker[w].inbox \in Seq(Calls \cup {Placeholder})
  /\ \A k \in Calls : call[k].step \in Waiting \cup {"none", "done"}
  /\ request.step \in {"none", "capturing", "creating", "setting", "closing"}

(* Whatever is stopped, replaced or fails while something else is under    *)
(* way, every running worker and every running clone of a captured track   *)
(* belongs to the session's video or to a call that is still to settle.    *)
NothingStray ==
  /\ \A w \in Workers : Running(w) => w \in {video, request.worker}
  /\ \A k \in clones : call[k].step \in Waiting \/ (video # 0 /\ worker[video].feed = k)

(* video_start and video_stop alternate, and the server was told of a      *)
(* video as long as the session has one or is making one.                  *)
ServerInStep ==
  active => (server <=> video # 0 \/ request.started)

(* A request that got its capture ends, so another source can be added,    *)
(* even when the session, the worker or the source go in the meantime.     *)
RequestSettles == (request.worker # 0) ~> (request.worker = 0)

Quiet == request = NoRequest /\ \A k \in Calls : call[k].step \notin Waiting

(* Hide+Mute Video: once all calls have settled and the worker has read    *)
(* its messages, no frames of a hidden source are shown.                   *)
HiddenNotShown ==
  Quiet /\ video # 0 /\ worker[video].inbox = <<>> /\ current \in hidden =>
    worker[video].shows \notin clones
=============================================================================
